---------------------------- MODULE Spec2Model ----------------------------
(***************************************************************************)
(* SimpleCPU: a 16-bit CPU emulator (cpu.c / cpu.h) driven by a host       *)
(* (main.c).  The CPU struct is modelled field by field; the 64 KiB memory *)
(* array is kept sparsely (only non-zero bytes are stored, every other     *)
(* address reads 0, which is what memset leaves in it).                    *)
(***************************************************************************)
EXTENDS Integers, Sequences, FiniteSets, TLC

VARIABLES
    regs,           \* cpu->regs[6]: A, B, C, D, SP, PC
    flags,          \* cpu->flags
    memory,         \* cpu->memory, sparse: address -> non-zero byte
    running,        \* cpu->running
    halted,         \* cpu->halted
    cycles,         \* cpu->cycles
    timer_value,    \* cpu->timer_value
    timer_enabled,  \* cpu->timer_enabled
    stdout,         \* bytes given to putchar since the last cpu_init
    nread,          \* number of getchar calls since the last cpu_init
    mode,           \* host position: "idle" between calls, "run" inside cpu_run
    call,           \* the API function that acted last
    ret,            \* its return value (0 for the void functions)
    prev,           \* history: what the last two stepped instructions started from
    runh,           \* history: step counters of the current run
    asm,            \* the Assembler context asm_ctx
    asmh            \* host position in asm_assemble_*, and history of the last line

vars == <<regs, flags, memory, running, halted, cycles, timer_value,
          timer_enabled, stdout, nread, mode, call, ret, prev, runh, asm, asmh>>

-----------------------------------------------------------------------------
(* Bounds of the model *)

\* cpu_step is not taken once cycles reaches this cap (driver specification).
MaxCycles == 8
\* The same cap for the free-API specification.
MaxApiCycles == 4
\* The same cap for the runs of assembled images.
MaxAsmCycles == 40

-----------------------------------------------------------------------------
(* cpu.h: configuration, register indices, flag bits, ports, opcodes *)

MEMORY_SIZE == 65536

REG_A == 0
REG_B == 1
REG_C == 2
REG_D == 3
REG_SP == 4
REG_PC == 5

FLAG_ZERO == 128
FLAG_CARRY == 64
FLAG_NEGATIVE == 32
FLAG_OVERFLOW == 16

PORT_STDOUT == 65280
PORT_STDIN == 65281
PORT_TIMER_CTRL == 65282
PORT_TIMER_VALUE == 65283

OP_NOP == 0
OP_LOAD_IMM == 1
OP_LOAD_MEM == 2
OP_STORE == 3
OP_MOV == 4
OP_PUSH == 5
OP_POP == 6
OP_ADD == 16
OP_ADDI == 17
OP_SUB == 18
OP_SUBI == 19
OP_MUL == 20
OP_DIV == 21
OP_INC == 22
OP_DEC == 23
OP_AND == 32
OP_OR == 33
OP_XOR == 34
OP_NOT == 35
OP_SHL == 36
OP_SHR == 37
OP_CMP == 48
OP_CMPI == 49
OP_JMP == 64
OP_JZ == 65
OP_JNZ == 66
OP_JC == 67
OP_JNC == 68
OP_CALL == 69
OP_RET == 70
OP_IN == 80
OP_OUT == 81
OP_HLT == 255

-----------------------------------------------------------------------------
(* C integer arithmetic at its width *)

U8(x) == x % 256
U16(x) == x % 65536

\* A uint32_t as its two 16-bit halves (TLC's integers are 32-bit
\* signed, so the C value hi * 2^16 + lo is kept split).
W32(hi, lo) == [hi |-> hi, lo |-> lo]

\* (uint32_t)a + b and a - b for a, b < 2^16; the difference wraps mod 2^32
Add32(a, b) == W32((a + b) \div 65536, (a + b) % 65536)
Sub32(a, b) == IF a >= b THEN W32(0, a - b) ELSE W32(65535, 65536 + a - b)

\* (uint32_t)a * b for a, b < 2^16, through the partial products of b's bytes
Mul32(a, b) ==
    LET p1 == a * (b % 256)
        p2 == a * (b \div 256)
        low == (p2 % 256) * 256 + p1
    IN W32(((p2 \div 256) + (low \div 65536)) % 65536, low % 65536)

RECURSIVE BitAnd(_, _)
BitAnd(a, b) ==
    IF a = 0 \/ b = 0 THEN 0
    ELSE (a % 2) * (b % 2) + 2 * BitAnd(a \div 2, b \div 2)

RECURSIVE BitOr(_, _)
BitOr(a, b) ==
    IF a = 0 THEN b
    ELSE IF b = 0 THEN a
    ELSE (IF a % 2 = 1 \/ b % 2 = 1 THEN 1 ELSE 0) + 2 * BitOr(a \div 2, b \div 2)

RECURSIVE BitXor(_, _)
BitXor(a, b) ==
    IF a = 0 THEN b
    ELSE IF b = 0 THEN a
    ELSE ((a + b) % 2) + 2 * BitXor(a \div 2, b \div 2)

\* x ^ y, x & y with a 16-bit x (promoted: high half 0) and a uint32_t y
Xor32(x, y) == W32(y.hi, BitXor(x, y.lo))
And32(x, y) == W32(BitAnd(x.hi, y.hi), BitAnd(x.lo, y.lo))

RECURSIVE Pow2(_)
Pow2(n) == IF n = 0 THEN 1 ELSE 2 * Pow2(n - 1)

\* ~x on a value promoted to int and converted back to a w-bit unsigned type
BitNot8(x) == 255 - x
BitNot16(x) == 65535 - x

-----------------------------------------------------------------------------
(* The CPU struct as one value, with the host streams the port handlers use. *)
(* inp is what the host's stdin still holds for the call in progress: each   *)
(* getchar takes its head, and an empty inp is EOF.  ub is what the build    *)
(* makes of a shift whose count C leaves undefined.                          *)

Machine(in, ub) ==
    [regs |-> regs, flags |-> flags, memory |-> memory, running |-> running,
     halted |-> halted, cycles |-> cycles, timer_value |-> timer_value,
     timer_enabled |-> timer_enabled, stdout |-> stdout, nread |-> nread,
     inp |-> in, ub |-> ub]

\* memory[addr] of the C array
MemAt(mem, addr) == IF addr \in DOMAIN mem THEN mem[addr] ELSE 0

\* memory[addr] = value
MemPut(mem, addr, value) ==
    IF value = 0
    THEN [x \in (DOMAIN mem) \ {addr} |-> mem[x]]
    ELSE [x \in (DOMAIN mem) \cup {addr} |-> IF x = addr THEN value ELSE mem[x]]

\* memcpy(&memory[start], program, size)
RECURSIVE MemCopy(_, _, _, _)
MemCopy(mem, start, program, i) ==
    IF i > Len(program) THEN mem
    ELSE MemCopy(MemPut(mem, start + i - 1, program[i]), start, program, i + 1)

-----------------------------------------------------------------------------
(* Core CPU lifecycle *)

\* faulty variant: no memset, the fields are assigned over the old content
cpu_init_no_memset(m) ==
    [m EXCEPT !.regs = [r \in 0..5 |-> IF r = REG_SP THEN 65279
                                       ELSE IF r = REG_PC THEN 256 ELSE 0],
              !.flags = 0,
              !.running = FALSE,
              !.halted = FALSE,
              !.cycles = 0]

\* cpu_init: memset to 0, then SP = 0xFEFF, PC = 0x0100
cpu_init(m) ==
    [m EXCEPT !.regs = [r \in 0..5 |-> IF r = REG_SP THEN 65279
                                       ELSE IF r = REG_PC THEN 256 ELSE 0],
              !.flags = 0,
              !.memory = <<>>,
              !.running = FALSE,
              !.halted = FALSE,
              !.cycles = 0,
              !.timer_value = 0,
              !.timer_enabled = FALSE]

cpu_reset(m) == cpu_init(m)

\* faulty variant: loading a program also makes a halted CPU ready again
cpu_load_program_restart(m, program, start_addr) ==
    IF start_addr + Len(program) > MEMORY_SIZE
    THEN [v |-> -1, m |-> m]
    ELSE [v |-> 0,
          m |-> [m EXCEPT !.memory = MemCopy(m.memory, start_addr, program, 1),
                          !.regs[REG_PC] = start_addr,
                          !.halted = FALSE]]

\* faulty variant: a program that ends on the last byte of memory is refused
cpu_load_program_short(m, program, start_addr) ==
    IF start_addr + Len(program) >= MEMORY_SIZE
    THEN [v |-> -1, m |-> m]
    ELSE [v |-> 0,
          m |-> [m EXCEPT !.memory = MemCopy(m.memory, start_addr, program, 1),
                          !.regs[REG_PC] = start_addr]]

\* faulty variant: loading a program also clears the cycle counter
cpu_load_program_rewind(m, program, start_addr) ==
    IF start_addr + Len(program) > MEMORY_SIZE
    THEN [v |-> -1, m |-> m]
    ELSE [v |-> 0,
          m |-> [m EXCEPT !.memory = MemCopy(m.memory, start_addr, program, 1),
                          !.regs[REG_PC] = start_addr,
                          !.cycles = 0]]

\* cpu_load_program: bounds check, memcpy, PC = start_addr
cpu_load_program(m, program, start_addr) ==
    IF start_addr + Len(program) > MEMORY_SIZE
    THEN [v |-> -1, m |-> m]
    ELSE [v |-> 0,
          m |-> [m EXCEPT !.memory = MemCopy(m.memory, start_addr, program, 1),
                          !.regs[REG_PC] = start_addr]]

-----------------------------------------------------------------------------
(* Memory access (with memory-mapped I/O).  A read returns the value and  *)
(* the machine after it: getchar consumes host input.                     *)

cpu_read_byte(m, addr) ==
    IF addr = PORT_STDIN
    THEN IF m.inp = <<>>
         THEN [v |-> 0, m |-> [m EXCEPT !.nread = @ + 1]]
         ELSE [v |-> U8(Head(m.inp)),
               m |-> [m EXCEPT !.nread = @ + 1, !.inp = Tail(@)]]
    ELSE IF addr = PORT_TIMER_VALUE
    THEN [v |-> BitAnd(m.timer_value, 255), m |-> m]
    ELSE IF addr = PORT_TIMER_CTRL
    THEN [v |-> IF m.timer_enabled THEN 1 ELSE 0, m |-> m]
    ELSE [v |-> MemAt(m.memory, addr), m |-> m]

\* (high << 8) | low
JoinWord(low, high) == [v |-> BitOr(high.v * 256, low), m |-> high.m]

\* the second read of cpu_read_word, at addr + 1 as a uint16_t
ReadHigh(low, addr) == JoinWord(low.v, cpu_read_byte(low.m, U16(addr + 1)))

cpu_read_word(m, addr) == ReadHigh(cpu_read_byte(m, addr), addr)

\* faulty variant: enabling the timer keeps the value it had
cpu_write_byte_keep(m, addr, value) ==
    IF addr = PORT_STDOUT
    THEN [m EXCEPT !.stdout = Append(@, value)]
    ELSE IF addr = PORT_TIMER_CTRL
    THEN [m EXCEPT !.timer_enabled = (value # 0)]
    ELSE IF addr = PORT_TIMER_VALUE
    THEN [m EXCEPT !.timer_value = value]
    ELSE [m EXCEPT !.memory = MemPut(@, addr, value)]

cpu_write_byte(m, addr, value) ==
    IF addr = PORT_STDOUT
    THEN [m EXCEPT !.stdout = Append(@, value)]
    ELSE IF addr = PORT_TIMER_CTRL
    THEN [m EXCEPT !.timer_enabled = (value # 0),
                   !.timer_value = IF value # 0 THEN 0 ELSE @]
    ELSE IF addr = PORT_TIMER_VALUE
    THEN [m EXCEPT !.timer_value = value]
    ELSE [m EXCEPT !.memory = MemPut(@, addr, value)]

\* faulty variant: the high byte is written first
cpu_write_word_high_first(m, addr, value) ==
    cpu_write_byte(cpu_write_byte(m, U16(addr + 1), BitAnd(value \div 256, 255)),
                   addr, BitAnd(value, 255))

cpu_write_word(m, addr, value) ==
    cpu_write_byte(cpu_write_byte(m, addr, BitAnd(value, 255)),
                   U16(addr + 1), BitAnd(value \div 256, 255))

-----------------------------------------------------------------------------
(* Register and flag helpers *)

cpu_get_reg(m, reg) == IF reg < 6 THEN m.regs[reg] ELSE 0

\* faulty variant: an index outside the register file wraps around into it
cpu_set_reg_wrapped(m, reg, value) == [m EXCEPT !.regs[reg % 6] = value]

cpu_set_reg(m, reg, value) ==
    IF reg < 6 THEN [m EXCEPT !.regs[reg] = value] ELSE m

cpu_set_flag(m, flag, value) ==
    IF value
    THEN [m EXCEPT !.flags = BitOr(@, flag)]
    ELSE [m EXCEPT !.flags = BitAnd(@, BitNot8(flag))]

cpu_get_flag(m, flag) == BitAnd(m.flags, flag) # 0

\* result arrives as a uint16_t parameter
cpu_set_flags_arithmetic(m, result, carry, overflow) ==
    cpu_set_flag(
      cpu_set_flag(
        cpu_set_flag(
          cpu_set_flag(m, FLAG_ZERO, BitAnd(U16(result), 65535) = 0),
          FLAG_NEGATIVE, BitAnd(U16(result), 32768) # 0),
        FLAG_CARRY, carry),
      FLAG_OVERFLOW, overflow)

-----------------------------------------------------------------------------
(* Stack operations (grows downward) *)

\* faulty variant: the stack pointer moves down by one byte
cpu_push_byte_step(m, value) ==
    cpu_write_word([m EXCEPT !.regs[REG_SP] = U16(@ - 1)],
                   U16(m.regs[REG_SP] - 1), value)

cpu_push(m, value) ==
    cpu_write_word([m EXCEPT !.regs[REG_SP] = U16(@ - 2)],
                   U16(m.regs[REG_SP] - 2), value)

\* regs[REG_SP] += 2 after the read
PopDone(w) == [v |-> w.v, m |-> [w.m EXCEPT !.regs[REG_SP] = U16(@ + 2)]]

\* faulty variant: SP is advanced before the word is read
cpu_pop_preinc(m) == PopDone(cpu_read_word(m, U16(m.regs[REG_SP] + 2)))

cpu_pop(m) == PopDone(cpu_read_word(m, m.regs[REG_SP]))

-----------------------------------------------------------------------------
(* Operand fetch.  Every case of cpu_step's switch starts by reading its    *)
(* operand bytes at the local pc, in one of six layouts; each layout gives  *)
(* the operands, the machine after the reads and the local pc after them.   *)

\* byte >> 4 & 0x0F and byte & 0x0F of a packed register byte
HiNibble(byte) == BitAnd(byte \div 16, 15)
LoNibble(byte) == BitAnd(byte, 15)

\* reg = cpu_read_byte(cpu, pc++)
RegOperand(reg, pc) == [m |-> reg.m, pc |-> U16(pc + 1), reg |-> reg.v]
FetchReg(m, pc) == RegOperand(cpu_read_byte(m, pc), pc)

\* byte = cpu_read_byte(cpu, pc++); r1 = (byte >> 4) & 0x0F; r2 = byte & 0x0F
PackedOperand(byte, pc) ==
    [m |-> byte.m, pc |-> U16(pc + 1), r1 |-> HiNibble(byte.v), r2 |-> LoNibble(byte.v)]
FetchPacked(m, pc) == PackedOperand(cpu_read_byte(m, pc), pc)

\* addr = cpu_read_word(cpu, pc); pc += 2
WordOperand(word, pc) == [m |-> word.m, pc |-> U16(pc + 2), addr |-> word.v]
FetchWord(m, pc) == WordOperand(cpu_read_word(m, pc), pc)

\* reg = cpu_read_byte(cpu, pc++); imm = cpu_read_word(cpu, pc); pc += 2
RegWordJoin(reg, w) == [m |-> w.m, pc |-> w.pc, reg |-> reg, imm |-> w.addr]
RegWordOperand(d) == RegWordJoin(d.reg, FetchWord(d.m, d.pc))
FetchRegWord(m, pc) == RegWordOperand(FetchReg(m, pc))

\* addr = cpu_read_word(cpu, pc); pc += 2; reg = cpu_read_byte(cpu, pc++)
WordRegJoin(addr, d) == [m |-> d.m, pc |-> d.pc, addr |-> addr, reg |-> d.reg]
WordRegOperand(w) == WordRegJoin(w.addr, FetchReg(w.m, w.pc))
FetchWordReg(m, pc) == WordRegOperand(FetchWord(m, pc))

\* reg = cpu_read_byte(cpu, pc++); shift = cpu_read_byte(cpu, pc++)
RegShiftJoin(reg, d) == [m |-> d.m, pc |-> d.pc, reg |-> reg, shift |-> d.reg]
RegShiftOperand(d) == RegShiftJoin(d.reg, FetchReg(d.m, d.pc))
FetchRegShift(m, pc) == RegShiftOperand(FetchReg(m, pc))

-----------------------------------------------------------------------------
(* Execute: one pair of operators per case of cpu_step's switch.  op_X     *)
(* takes the machine after the fetch and the local pc (already past the    *)
(* opcode); do_X acts on the fetched operands d.  Both give the machine,   *)
(* the local pc and whether the case returned -1.                          *)

Ok(m, pc) == [m |-> m, pc |-> pc, fatal |-> FALSE]
Fatal(m, pc) == [m |-> [m EXCEPT !.halted = TRUE], pc |-> pc, fatal |-> TRUE]

op_NOP(m, pc) == Ok(m, pc)

do_LOAD_IMM(d) == Ok(cpu_set_reg(d.m, d.reg, d.imm), d.pc)
op_LOAD_IMM(m, pc) == do_LOAD_IMM(FetchRegWord(m, pc))

\* cpu_set_reg(cpu, reg, value) with the word read at addr
LoadValue(reg, value, pc) == Ok(cpu_set_reg(value.m, reg, value.v), pc)
do_LOAD_MEM(d) == LoadValue(d.reg, cpu_read_word(d.m, d.imm), d.pc)
op_LOAD_MEM(m, pc) == do_LOAD_MEM(FetchRegWord(m, pc))

do_STORE(d) == Ok(cpu_write_word(d.m, d.addr, cpu_get_reg(d.m, d.reg)), d.pc)
op_STORE(m, pc) == do_STORE(FetchWordReg(m, pc))

\* faulty variant: MOV sets Z and N from the value it moves
do_MOV_flagged(d) ==
    Ok(cpu_set_flags_arithmetic(cpu_set_reg(d.m, d.r1, cpu_get_reg(d.m, d.r2)),
                                cpu_get_reg(d.m, d.r2), FALSE, FALSE), d.pc)

do_MOV(d) == Ok(cpu_set_reg(d.m, d.r1, cpu_get_reg(d.m, d.r2)), d.pc)
op_MOV(m, pc) == do_MOV(FetchPacked(m, pc))

\* faulty variant: the word is written at SP and SP stays
do_PUSH_unmoved(d) ==
    Ok(cpu_write_word(d.m, d.m.regs[REG_SP], cpu_get_reg(d.m, d.reg)), d.pc)

do_PUSH(d) == Ok(cpu_push(d.m, cpu_get_reg(d.m, d.reg)), d.pc)
op_PUSH(m, pc) == do_PUSH(FetchReg(m, pc))

\* cpu_set_reg(cpu, reg, cpu_pop(cpu)): the pop acts first
PopInto(reg, top, pc) == Ok(cpu_set_reg(top.m, reg, top.v), pc)
do_POP(d) == PopInto(d.reg, cpu_pop(d.m), d.pc)
op_POP(m, pc) == do_POP(FetchReg(m, pc))

\* faulty variant: the overflow test of the subtraction, (a ^ b) & (a ^ result)
AddFinishSubOverflow(m, reg, a, b, result) ==
    cpu_set_flags_arithmetic(
        cpu_set_reg(m, reg, result.lo), result.lo, result.hi # 0,
        BitAnd(And32(W32(0, BitXor(a, b)), Xor32(a, result)).lo, 32768) # 0)

\* ADD, ADDI: result = a + b; write back; carry; overflow; flags
AddFinish(m, reg, a, b, result) ==
    cpu_set_flags_arithmetic(
        cpu_set_reg(m, reg, result.lo), result.lo, result.hi # 0,
        BitAnd(And32(Xor32(a, result), Xor32(b, result)).lo, 32768) # 0)

do_ADD(d) ==
    Ok(AddFinish(d.m, d.r1, cpu_get_reg(d.m, d.r1), cpu_get_reg(d.m, d.r2),
                 Add32(cpu_get_reg(d.m, d.r1), cpu_get_reg(d.m, d.r2))), d.pc)
op_ADD(m, pc) == do_ADD(FetchPacked(m, pc))

AddiFinish(m, reg, a, imm, result) ==
    cpu_set_flags_arithmetic(
        cpu_set_reg(m, reg, result.lo), result.lo, result.hi # 0,
        BitAnd(And32(Xor32(a, result), Xor32(imm, result)).lo, 32768) # 0)

do_ADDI(d) ==
    Ok(AddiFinish(d.m, d.reg, cpu_get_reg(d.m, d.reg), d.imm,
                  Add32(cpu_get_reg(d.m, d.reg), d.imm)), d.pc)
op_ADDI(m, pc) == do_ADDI(FetchRegWord(m, pc))

\* SUB, SUBI: result = a - b; write back; carry = a < b; overflow; flags
SubFinish(m, reg, a, b, result) ==
    cpu_set_flags_arithmetic(
        cpu_set_reg(m, reg, result.lo), result.lo, a < b,
        BitAnd(And32(W32(0, BitXor(a, b)), Xor32(a, result)).lo, 32768) # 0)

do_SUB(d) ==
    Ok(SubFinish(d.m, d.r1, cpu_get_reg(d.m, d.r1), cpu_get_reg(d.m, d.r2),
                 Sub32(cpu_get_reg(d.m, d.r1), cpu_get_reg(d.m, d.r2))), d.pc)
op_SUB(m, pc) == do_SUB(FetchPacked(m, pc))

SubiFinish(m, reg, a, imm, result) ==
    cpu_set_flags_arithmetic(
        cpu_set_reg(m, reg, result.lo), result.lo, a < imm,
        BitAnd(And32(W32(0, BitXor(a, imm)), Xor32(a, result)).lo, 32768) # 0)

do_SUBI(d) ==
    Ok(SubiFinish(d.m, d.reg, cpu_get_reg(d.m, d.reg), d.imm,
                  Sub32(cpu_get_reg(d.m, d.reg), d.imm)), d.pc)
op_SUBI(m, pc) == do_SUBI(FetchRegWord(m, pc))

\* faulty variant: the carry of the product is dropped
MulFinishNoCarry(m, reg, result) ==
    cpu_set_flags_arithmetic(cpu_set_reg(m, reg, result.lo), result.lo, FALSE, FALSE)

MulFinish(m, reg, result) ==
    cpu_set_flags_arithmetic(cpu_set_reg(m, reg, result.lo), result.lo,
                             result.hi # 0, FALSE)

do_MUL(d) ==
    Ok(MulFinish(d.m, d.r1, Mul32(cpu_get_reg(d.m, d.r1), cpu_get_reg(d.m, d.r2))),
       d.pc)
op_MUL(m, pc) == do_MUL(FetchPacked(m, pc))

\* faulty variant: the remainder is not stored
DivFinishQuotientOnly(m, r1, r2, dividend, divisor) ==
    cpu_set_flags_arithmetic(cpu_set_reg(m, r1, dividend \div divisor),
                             dividend \div divisor, FALSE, FALSE)

\* DIV with a non-zero divisor: quotient to r1, then remainder to r2, flags
DivFinish(m, r1, r2, dividend, divisor) ==
    cpu_set_flags_arithmetic(
        cpu_set_reg(cpu_set_reg(m, r1, dividend \div divisor),
                    r2, dividend % divisor),
        dividend \div divisor, FALSE, FALSE)

do_DIV(d) ==
    IF cpu_get_reg(d.m, d.r2) = 0
    THEN Fatal(d.m, d.pc)
    ELSE Ok(DivFinish(d.m, d.r1, d.r2, cpu_get_reg(d.m, d.r1), cpu_get_reg(d.m, d.r2)),
            d.pc)
op_DIV(m, pc) == do_DIV(FetchPacked(m, pc))

\* INC, DEC, AND, OR, XOR, NOT: write the uint16_t back, flags with C = O = 0
WriteLogic(m, reg, value) ==
    cpu_set_flags_arithmetic(cpu_set_reg(m, reg, value), value, FALSE, FALSE)

\* faulty variant: INC reports the wrap as a carry, as ADDI r,1 would
do_INC_carry(d) ==
    Ok(cpu_set_flags_arithmetic(
           cpu_set_reg(d.m, d.reg, U16(cpu_get_reg(d.m, d.reg) + 1)),
           U16(cpu_get_reg(d.m, d.reg) + 1), cpu_get_reg(d.m, d.reg) = 65535, FALSE),
       d.pc)

do_INC(d) == Ok(WriteLogic(d.m, d.reg, U16(cpu_get_reg(d.m, d.reg) + 1)), d.pc)
op_INC(m, pc) == do_INC(FetchReg(m, pc))

do_DEC(d) == Ok(WriteLogic(d.m, d.reg, U16(cpu_get_reg(d.m, d.reg) - 1)), d.pc)
op_DEC(m, pc) == do_DEC(FetchReg(m, pc))

do_AND(d) ==
    Ok(WriteLogic(d.m, d.r1, BitAnd(cpu_get_reg(d.m, d.r1), cpu_get_reg(d.m, d.r2))),
       d.pc)
op_AND(m, pc) == do_AND(FetchPacked(m, pc))

do_OR(d) ==
    Ok(WriteLogic(d.m, d.r1, BitOr(cpu_get_reg(d.m, d.r1), cpu_get_reg(d.m, d.r2))),
       d.pc)
op_OR(m, pc) == do_OR(FetchPacked(m, pc))

do_XOR(d) ==
    Ok(WriteLogic(d.m, d.r1, BitXor(cpu_get_reg(d.m, d.r1), cpu_get_reg(d.m, d.r2))),
       d.pc)
op_XOR(m, pc) == do_XOR(FetchPacked(m, pc))

do_NOT(d) == Ok(WriteLogic(d.m, d.reg, BitNot16(cpu_get_reg(d.m, d.reg))), d.pc)
op_NOT(m, pc) == do_NOT(FetchReg(m, pc))

\* The count of a shift of an int.  A count of 32 or more, and a negative
\* count, are undefined in C: ub names what the build makes of it, the count
\* taken modulo 32 ("mask", as the x86 shift instructions do) or every bit
\* shifted out ("zero", written 32).
ShiftCount(count, ub) ==
    IF count >= 0 /\ count < 32 THEN count
    ELSE IF ub = "mask" THEN count % 32
    ELSE 32

\* (uint16_t)(value << count), value >> count, and value & (1 << count)
ShiftLeft16(value, count, ub) ==
    IF ShiftCount(count, ub) < 16 THEN U16(value * Pow2(ShiftCount(count, ub))) ELSE 0

ShiftRight16(value, count, ub) ==
    IF ShiftCount(count, ub) < 16 THEN value \div Pow2(ShiftCount(count, ub)) ELSE 0

AndOneShifted(value, count, ub) ==
    IF ShiftCount(count, ub) < 16 THEN BitAnd(value, Pow2(ShiftCount(count, ub))) ELSE 0

ShiftFinish(m, reg, result, carry) ==
    cpu_set_flags_arithmetic(cpu_set_reg(m, reg, result), result, carry, FALSE)

\* faulty variant: the carry is taken one bit too low
do_SHL_carry_low(d) ==
    Ok(ShiftFinish(d.m, d.reg, ShiftLeft16(cpu_get_reg(d.m, d.reg), d.shift, d.m.ub),
                   d.shift > 0
                   /\ AndOneShifted(cpu_get_reg(d.m, d.reg), 15 - d.shift, d.m.ub) # 0),
       d.pc)

do_SHL(d) ==
    Ok(ShiftFinish(d.m, d.reg, ShiftLeft16(cpu_get_reg(d.m, d.reg), d.shift, d.m.ub),
                   d.shift > 0
                   /\ AndOneShifted(cpu_get_reg(d.m, d.reg), 16 - d.shift, d.m.ub) # 0),
       d.pc)
op_SHL(m, pc) == do_SHL(FetchRegShift(m, pc))

do_SHR(d) ==
    Ok(ShiftFinish(d.m, d.reg, ShiftRight16(cpu_get_reg(d.m, d.reg), d.shift, d.m.ub),
                   d.shift > 0
                   /\ AndOneShifted(cpu_get_reg(d.m, d.reg), d.shift - 1, d.m.ub) # 0),
       d.pc)
op_SHR(m, pc) == do_SHR(FetchRegShift(m, pc))

\* CMP, CMPI: the flags of a - b, no write back
CmpFinish(m, a, b, result) ==
    cpu_set_flags_arithmetic(m, result.lo, a < b,
        BitAnd(And32(W32(0, BitXor(a, b)), Xor32(a, result)).lo, 32768) # 0)

\* faulty variant: CMP keeps the difference
do_CMP_writes(d) == do_SUB(d)

do_CMP(d) ==
    Ok(CmpFinish(d.m, cpu_get_reg(d.m, d.r1), cpu_get_reg(d.m, d.r2),
                 Sub32(cpu_get_reg(d.m, d.r1), cpu_get_reg(d.m, d.r2))), d.pc)
op_CMP(m, pc) == do_CMP(FetchPacked(m, pc))

CmpiFinish(m, a, imm, result) ==
    cpu_set_flags_arithmetic(m, result.lo, a < imm,
        BitAnd(And32(W32(0, BitXor(a, imm)), Xor32(a, result)).lo, 32768) # 0)

do_CMPI(d) ==
    Ok(CmpiFinish(d.m, cpu_get_reg(d.m, d.reg), d.imm,
                  Sub32(cpu_get_reg(d.m, d.reg), d.imm)), d.pc)
op_CMPI(m, pc) == do_CMPI(FetchRegWord(m, pc))

do_JMP(d) == Ok(d.m, d.addr)
op_JMP(m, pc) == do_JMP(FetchWord(m, pc))

\* faulty variant: a jump not taken leaves its operand unread
do_JZ_unread(d) ==
    Ok(d.m, IF cpu_get_flag(d.m, FLAG_ZERO) THEN d.addr ELSE U16(d.pc - 2))

do_JZ(d) == Ok(d.m, IF cpu_get_flag(d.m, FLAG_ZERO) THEN d.addr ELSE d.pc)
op_JZ(m, pc) == do_JZ(FetchWord(m, pc))

\* faulty variant: the jump is taken when Z is set
do_JNZ_inverted(d) == Ok(d.m, IF cpu_get_flag(d.m, FLAG_ZERO) THEN d.addr ELSE d.pc)

do_JNZ(d) == Ok(d.m, IF ~cpu_get_flag(d.m, FLAG_ZERO) THEN d.addr ELSE d.pc)
op_JNZ(m, pc) == do_JNZ(FetchWord(m, pc))

do_JC(d) == Ok(d.m, IF cpu_get_flag(d.m, FLAG_CARRY) THEN d.addr ELSE d.pc)
op_JC(m, pc) == do_JC(FetchWord(m, pc))

do_JNC(d) == Ok(d.m, IF ~cpu_get_flag(d.m, FLAG_CARRY) THEN d.addr ELSE d.pc)
op_JNC(m, pc) == do_JNC(FetchWord(m, pc))

\* faulty variant: the return address is taken before the operand is skipped
do_CALL_early(d) == Ok(cpu_push(d.m, U16(d.pc - 2)), d.addr)

\* cpu_push(cpu, pc) with pc past the operand, then pc = addr
do_CALL(d) == Ok(cpu_push(d.m, d.pc), d.addr)
op_CALL(m, pc) == do_CALL(FetchWord(m, pc))

\* pc = cpu_pop(cpu)
do_RET(top) == Ok(top.m, top.v)
op_RET(m, pc) == do_RET(cpu_pop(m))

\* value = cpu_read_byte(cpu, port); cpu_set_reg(cpu, reg, value)
InValue(reg, value, pc) == Ok(cpu_set_reg(value.m, reg, value.v), pc)
do_IN(d) == InValue(d.reg, cpu_read_byte(d.m, d.imm), d.pc)
op_IN(m, pc) == do_IN(FetchRegWord(m, pc))

\* faulty variant: OUT sends the high byte of the register
do_OUT_high(d) ==
    Ok(cpu_write_byte(d.m, d.addr, cpu_get_reg(d.m, d.reg) \div 256), d.pc)

do_OUT(d) ==
    Ok(cpu_write_byte(d.m, d.addr, BitAnd(cpu_get_reg(d.m, d.reg), 255)), d.pc)
op_OUT(m, pc) == do_OUT(FetchWordReg(m, pc))

\* faulty variant: HLT ends the run loop without setting halted
op_HLT_running_only(m, pc) == Ok([m EXCEPT !.running = FALSE], pc)

op_HLT(m, pc) == Ok([m EXCEPT !.halted = TRUE, !.running = FALSE], pc)

\* faulty variant: an unknown opcode stops the CPU the way HLT does
op_default_halts(m, pc) == Ok([m EXCEPT !.halted = TRUE, !.running = FALSE], pc)

op_default(m, pc) == Fatal(m, pc)

-----------------------------------------------------------------------------
(* cpu_step *)

\* the switch on the opcode byte
Dispatch(m, opcode, pc) ==
    CASE opcode = OP_NOP -> op_NOP(m, pc)
      [] opcode = OP_LOAD_IMM -> op_LOAD_IMM(m, pc)
      [] opcode = OP_LOAD_MEM -> op_LOAD_MEM(m, pc)
      [] opcode = OP_STORE -> op_STORE(m, pc)
      [] opcode = OP_MOV -> op_MOV(m, pc)
      [] opcode = OP_PUSH -> op_PUSH(m, pc)
      [] opcode = OP_POP -> op_POP(m, pc)
      [] opcode = OP_ADD -> op_ADD(m, pc)
      [] opcode = OP_ADDI -> op_ADDI(m, pc)
      [] opcode = OP_SUB -> op_SUB(m, pc)
      [] opcode = OP_SUBI -> op_SUBI(m, pc)
      [] opcode = OP_MUL -> op_MUL(m, pc)
      [] opcode = OP_DIV -> op_DIV(m, pc)
      [] opcode = OP_INC -> op_INC(m, pc)
      [] opcode = OP_DEC -> op_DEC(m, pc)
      [] opcode = OP_AND -> op_AND(m, pc)
      [] opcode = OP_OR -> op_OR(m, pc)
      [] opcode = OP_XOR -> op_XOR(m, pc)
      [] opcode = OP_NOT -> op_NOT(m, pc)
      [] opcode = OP_SHL -> op_SHL(m, pc)
      [] opcode = OP_SHR -> op_SHR(m, pc)
      [] opcode = OP_CMP -> op_CMP(m, pc)
      [] opcode = OP_CMPI -> op_CMPI(m, pc)
      [] opcode = OP_JMP -> op_JMP(m, pc)
      [] opcode = OP_JZ -> op_JZ(m, pc)
      [] opcode = OP_JNZ -> op_JNZ(m, pc)
      [] opcode = OP_JC -> op_JC(m, pc)
      [] opcode = OP_JNC -> op_JNC(m, pc)
      [] opcode = OP_CALL -> op_CALL(m, pc)
      [] opcode = OP_RET -> op_RET(m, pc)
      [] opcode = OP_IN -> op_IN(m, pc)
      [] opcode = OP_OUT -> op_OUT(m, pc)
      [] opcode = OP_HLT -> op_HLT(m, pc)
      [] OTHER -> op_default(m, pc)

\* faulty variant: the timer counts whether enabled or not
TimerTickAlways(opcode) ==
    [v |-> opcode.v, m |-> [opcode.m EXCEPT !.timer_value = U16(@ + 1)]]

\* Update timer each instruction if enabled
TimerTick(opcode) ==
    [v |-> opcode.v,
     m |-> IF opcode.m.timer_enabled
           THEN [opcode.m EXCEPT !.timer_value = U16(@ + 1)]
           ELSE opcode.m]

\* faulty variant: the timer tick before the opcode is read
FetchTickFirst(m) ==
    cpu_read_byte(TimerTick([v |-> 0, m |-> m]).m, m.regs[REG_PC])

\* FETCH: the opcode byte at PC, then the timer tick
Fetch(m) == TimerTick(cpu_read_byte(m, m.regs[REG_PC]))

\* faulty variant: PC itself is advanced past the opcode before the case runs
ExecuteCommitted(f, pc) ==
    Dispatch([f.m EXCEPT !.regs[REG_PC] = U16(pc + 1)], f.v, U16(pc + 1))

\* DECODE & EXECUTE on the fetched opcode f, the local pc past it
Execute(f, pc) == Dispatch(f.m, f.v, U16(pc + 1))

\* faulty variant: a step that halted returns before the cycle counter
StepResultHaltUncounted(x) ==
    IF x.fatal
    THEN [v |-> -1, m |-> x.m]
    ELSE IF x.m.halted
         THEN [v |-> 1, m |-> [x.m EXCEPT !.regs[REG_PC] = x.pc]]
         ELSE [v |-> 1, m |-> [x.m EXCEPT !.regs[REG_PC] = x.pc, !.cycles = @ + 1]]

\* Commit updated PC and increment cycle counter, or return -1 without
StepResult(x) ==
    IF x.fatal
    THEN [v |-> -1, m |-> x.m]
    ELSE [v |-> 1, m |-> [x.m EXCEPT !.regs[REG_PC] = x.pc, !.cycles = @ + 1]]

\* faulty variant: no early return on a halted CPU
cpu_step_unguarded(m) == StepResult(Execute(Fetch(m), m.regs[REG_PC]))

cpu_step(m) ==
    IF m.halted
    THEN [v |-> 0, m |-> m]
    ELSE StepResult(Execute(Fetch(m), m.regs[REG_PC]))

-----------------------------------------------------------------------------
(* Program images, laid out as the assembler emits them *)

Lo(w) == w % 256
Hi(w) == (w \div 256) % 256

EncOp(op) == <<op>>
EncReg(op, reg) == <<op, reg>>
EncPacked(op, r1, r2) == <<op, BitOr(r1 * 16, r2)>>
EncRegImm(op, reg, imm) == <<op, reg, Lo(imm), Hi(imm)>>
EncAddrReg(op, addr, reg) == <<op, Lo(addr), Hi(addr), reg>>
EncAddr(op, addr) == <<op, Lo(addr), Hi(addr)>>
EncRegShift(op, reg, shift) == <<op, reg, shift>>

\* the base address main.c loads every image at
BASE == 256

\* operand values: the ends and the middle of the 16-bit range
Vals == {0, 1, 3, 10, 32767, 32768, 65535}

\* LOAD r1,a ; LOAD r2,b ; <op> r1,r2 ; HLT
BinaryPrograms ==
    { EncRegImm(OP_LOAD_IMM, REG_A, a) \o EncRegImm(OP_LOAD_IMM, REG_B, b)
        \o EncPacked(op, REG_A, REG_B) \o EncOp(OP_HLT) :
      op \in {OP_ADD, OP_SUB, OP_CMP, OP_DIV}, a \in Vals, b \in Vals }

\* the same on every pair of register nibbles, 6 and 15 being no register
RegPairPrograms ==
    { EncRegImm(OP_LOAD_IMM, r1, 10) \o EncRegImm(OP_LOAD_IMM, r2, b)
        \o EncPacked(op, r1, r2) \o EncOp(OP_HLT) :
      op \in {OP_DIV, OP_ADD, OP_SUB, OP_CMP}, r1 \in {0, 1, 4, 5, 6}, r2 \in {0, 1, 4, 5, 15},
      b \in {0, 3} }

\* LOAD r,a ; <op> r,b ; HLT
ImmediatePrograms ==
    { EncRegImm(OP_LOAD_IMM, REG_A, a) \o EncRegImm(op, REG_A, b) \o EncOp(OP_HLT) :
      op \in {OP_ADDI, OP_SUBI, OP_CMPI}, a \in Vals, b \in Vals }

\* LOAD r1,v ; PUSH r1 ; POP r2 ; HLT, once with the stack on the ports
StackPrograms ==
    { EncRegImm(OP_LOAD_IMM, r1, v) \o EncReg(OP_PUSH, r1) \o EncReg(OP_POP, r2)
        \o EncOp(OP_HLT) :
      r1 \in {0, 3, 4, 5}, r2 \in {0, 1, 4, 5, 7}, v \in Vals }
    \cup
    { EncRegImm(OP_LOAD_IMM, REG_SP, sp) \o EncRegImm(OP_LOAD_IMM, REG_A, 4660)
        \o EncReg(OP_PUSH, REG_A) \o EncReg(OP_POP, REG_B) \o EncOp(OP_HLT) :
      sp \in {PORT_TIMER_CTRL, PORT_TIMER_VALUE + 1, BASE + 10, 1, 0} }

\* CALL/RET: an immediate return, a nested balanced body, a stack on the
\* ports and a stack inside the code
CallPrograms ==
    { \* CALL F ; HLT ; F: RET
      EncAddr(OP_CALL, BASE + 4) \o EncOp(OP_HLT) \o EncOp(OP_RET),
      \* NOP ; CALL F ; HLT ; NOP ; F: RET
      EncOp(OP_NOP) \o EncAddr(OP_CALL, BASE + 6) \o EncOp(OP_HLT) \o EncOp(OP_NOP)
        \o EncOp(OP_RET),
      \* CALL F ; HLT ; F: PUSH A ; CALL G ; POP A ; RET ; G: RET
      EncAddr(OP_CALL, BASE + 4) \o EncOp(OP_HLT) \o EncReg(OP_PUSH, REG_A)
        \o EncAddr(OP_CALL, BASE + 12) \o EncReg(OP_POP, REG_A) \o EncOp(OP_RET)
        \o EncOp(OP_RET),
      \* CALL F ; HLT ; F: LOAD A,7 ; RET
      EncAddr(OP_CALL, BASE + 4) \o EncOp(OP_HLT) \o EncRegImm(OP_LOAD_IMM, REG_A, 7)
        \o EncOp(OP_RET) }
    \cup
    { \* LOAD SP,sp ; CALL F ; HLT ; F: RET
      EncRegImm(OP_LOAD_IMM, REG_SP, sp) \o EncAddr(OP_CALL, BASE + 8)
        \o EncOp(OP_HLT) \o EncOp(OP_RET) :
      sp \in {PORT_TIMER_CTRL, BASE + 10, BASE + 9, 1} }

\* the timer enabled by the second instruction and read by the sixth
TimerCount ==
    EncRegImm(OP_LOAD_IMM, REG_A, 1) \o EncAddrReg(OP_OUT, PORT_TIMER_CTRL, REG_A)
      \o EncOp(OP_NOP) \o EncOp(OP_NOP) \o EncOp(OP_NOP)
      \o EncRegImm(OP_IN, REG_B, PORT_TIMER_VALUE) \o EncOp(OP_HLT)

\* the timer set to 0xFE and the next opcode fetched from its port
TimerFetch ==
    EncRegImm(OP_LOAD_IMM, REG_A, 254) \o EncAddrReg(OP_OUT, PORT_TIMER_CTRL, REG_A)
      \o EncAddrReg(OP_OUT, PORT_TIMER_VALUE, REG_A) \o EncAddr(OP_JMP, PORT_TIMER_VALUE)

\* fatal instructions, endless loops and the scenarios of the documentation
OtherPrograms ==
    { <<7>>, <<153>>,
      EncRegImm(OP_LOAD_IMM, REG_A, 5) \o <<254>>,
      EncAddr(OP_JMP, BASE),
      EncReg(OP_INC, REG_A) \o EncAddr(OP_JMP, BASE),
      EncOp(OP_HLT),
      EncOp(OP_NOP) \o EncOp(OP_HLT),
      \* LOAD A,72 ; OUT 0xFF00,A ; HLT
      EncRegImm(OP_LOAD_IMM, REG_A, 72) \o EncAddrReg(OP_OUT, PORT_STDOUT, REG_A)
        \o EncOp(OP_HLT),
      \* LOAD A,0x1234 ; PUSH A ; LOAD A,0 ; POP A ; HLT
      EncRegImm(OP_LOAD_IMM, REG_A, 4660) \o EncReg(OP_PUSH, REG_A)
        \o EncRegImm(OP_LOAD_IMM, REG_A, 0) \o EncReg(OP_POP, REG_A) \o EncOp(OP_HLT),
      \* IN A,0xFF01 ; OUT 0xFF02,A ; NOP ; IN B,0xFF03 ; HLT
      EncRegImm(OP_IN, REG_A, PORT_STDIN) \o EncAddrReg(OP_OUT, PORT_TIMER_CTRL, REG_A)
        \o EncOp(OP_NOP) \o EncRegImm(OP_IN, REG_B, PORT_TIMER_VALUE) \o EncOp(OP_HLT),
      \* LOAD A,0x4148 ; OUT 0xFF00,A ; STORE 0xFF00,A ; STORE 0xFEFF,A ;
      \* POP B ; PUSH A ; HLT: the last three reach the port with a word
      EncRegImm(OP_LOAD_IMM, REG_A, 16712) \o EncAddrReg(OP_OUT, PORT_STDOUT, REG_A)
        \o EncAddrReg(OP_STORE, PORT_STDOUT, REG_A)
        \o EncAddrReg(OP_STORE, PORT_STDOUT - 1, REG_A)
        \o EncReg(OP_POP, REG_B) \o EncReg(OP_PUSH, REG_A) \o EncOp(OP_HLT),
      \* LOAD A,1 ; OUT 0xFF02,A ; NOP ; <undefined opcode>
      EncRegImm(OP_LOAD_IMM, REG_A, 1) \o EncAddrReg(OP_OUT, PORT_TIMER_CTRL, REG_A)
        \o EncOp(OP_NOP) \o <<7>>,
      \* LOAD A,1 ; OUT 0xFF02,A ; DIV A,B with B = 0
      EncRegImm(OP_LOAD_IMM, REG_A, 1) \o EncAddrReg(OP_OUT, PORT_TIMER_CTRL, REG_A)
        \o EncPacked(OP_DIV, REG_A, REG_B),
      \* LOAD A,1 ; OUT 0xFF02,A ; NOP ; NOP ; NOP ; IN B,0xFF03 ; HLT
      TimerCount,
      \* LOAD A,0xFE ; OUT 0xFF02,A ; OUT 0xFF03,A ; JMP 0xFF03
      TimerFetch,
      \* IN C,0xFF02 ; LOAD A,5 ; OUT 0xFF03,A ; NOP ; OUT 0xFF02,A ; NOP ; HLT
      EncRegImm(OP_IN, REG_C, PORT_TIMER_CTRL) \o EncRegImm(OP_LOAD_IMM, REG_A, 5)
        \o EncAddrReg(OP_OUT, PORT_TIMER_VALUE, REG_A) \o EncOp(OP_NOP)
        \o EncAddrReg(OP_OUT, PORT_TIMER_CTRL, REG_A) \o EncOp(OP_NOP) \o EncOp(OP_HLT),
      \* LOAD A,0x1FF ; OUT 0xFF02,A ; OUT 0xFF03,A ; IN B,0xFF03 ; IN C,0xFF02 ;
      \* LOAD A,0x100 ; OUT 0xFF02,A ; HLT
      EncRegImm(OP_LOAD_IMM, REG_A, 511) \o EncAddrReg(OP_OUT, PORT_TIMER_CTRL, REG_A)
        \o EncAddrReg(OP_OUT, PORT_TIMER_VALUE, REG_A)
        \o EncRegImm(OP_IN, REG_B, PORT_TIMER_VALUE)
        \o EncRegImm(OP_IN, REG_C, PORT_TIMER_CTRL)
        \o EncRegImm(OP_LOAD_IMM, REG_A, 256)
        \o EncAddrReg(OP_OUT, PORT_TIMER_CTRL, REG_A) \o EncOp(OP_HLT),
      \* LOAD A,0x0301 ; STORE 0xFF02,A ; NOP ; HLT: a word across both timer ports
      EncRegImm(OP_LOAD_IMM, REG_A, 769) \o EncAddrReg(OP_STORE, PORT_TIMER_CTRL, REG_A)
        \o EncOp(OP_NOP) \o EncOp(OP_HLT),
      \* LOAD A,0x0301 ; STORE 0xFF02,A ; LOAD B,[0xFF02] ; LOAD A,0x0500 ;
      \* STORE 0xFF02,A ; LOAD C,[0xFF02] ; HLT
      EncRegImm(OP_LOAD_IMM, REG_A, 769) \o EncAddrReg(OP_STORE, PORT_TIMER_CTRL, REG_A)
        \o EncRegImm(OP_LOAD_MEM, REG_B, PORT_TIMER_CTRL)
        \o EncRegImm(OP_LOAD_IMM, REG_A, 1280)
        \o EncAddrReg(OP_STORE, PORT_TIMER_CTRL, REG_A)
        \o EncRegImm(OP_LOAD_MEM, REG_C, PORT_TIMER_CTRL) \o EncOp(OP_HLT),
      \* LOAD A,0x1234 ; STORE 0xFFFF,A ; LOAD B,[0xFFFF] ; HLT: a word whose
      \* second byte is at address 0
      EncRegImm(OP_LOAD_IMM, REG_A, 4660) \o EncAddrReg(OP_STORE, MEMORY_SIZE - 1, REG_A)
        \o EncRegImm(OP_LOAD_MEM, REG_B, MEMORY_SIZE - 1) \o EncOp(OP_HLT) }

\* LOAD D,0x8000 ; ADD D,D: leaves Z, C and O set for what follows
SetZCO == EncRegImm(OP_LOAD_IMM, REG_D, 32768) \o EncPacked(OP_ADD, REG_D, REG_D)

\* with Z, C and O set: LOAD A,a ; LOAD B,b ; <op> A,B ; HLT, and
\* LOAD A,a ; <op> A ; HLT
AluPrograms ==
    { SetZCO \o EncRegImm(OP_LOAD_IMM, REG_A, a) \o EncRegImm(OP_LOAD_IMM, REG_B, b)
        \o EncPacked(op, REG_A, REG_B) \o EncOp(OP_HLT) :
      op \in {OP_MUL, OP_AND, OP_OR, OP_XOR}, a \in Vals, b \in Vals }
    \cup
    { SetZCO \o EncRegImm(OP_LOAD_IMM, REG_A, 256) \o EncRegImm(OP_LOAD_IMM, REG_B, b)
        \o EncPacked(OP_MUL, REG_A, REG_B) \o EncOp(OP_HLT) : b \in {255, 256} }
    \cup
    { SetZCO \o EncRegImm(OP_LOAD_IMM, REG_A, a) \o EncReg(op, REG_A) \o EncOp(OP_HLT) :
      op \in {OP_INC, OP_DEC, OP_NOT}, a \in Vals }

\* with Z, C and O set: LOAD A,v ; SHL/SHR A,s ; HLT, for the shift counts
\* 0..16, one more, and two that are undefined in C
ShiftPrograms ==
    { SetZCO \o EncRegImm(OP_LOAD_IMM, REG_A, v) \o EncRegShift(op, REG_A, s)
        \o EncOp(OP_HLT) :
      op \in {OP_SHL, OP_SHR}, v \in {0, 1, 32768, 42405, 65535}, s \in 0..17 \cup {32, 255} }

\* flag settings ahead of a jump: none set; Z, C and O; Z alone (CMP D,D);
\* C and N (CMPI D,1 with D = 0)
FlagSetups ==
    { <<>>, SetZCO, EncPacked(OP_CMP, REG_D, REG_D), EncRegImm(OP_CMPI, REG_D, 1) }

\* <flags> ; <jump> T ; HLT ; T: NOP ; HLT, and the same with T far away
\* in memory that holds zeroes; then a jump built by the program in the
\* last three bytes of memory: LOAD A,<jump 0x0020> ; STORE 0xFFFD,A ;
\* JMP 0xFFFD
JumpPrograms ==
    { setup \o EncAddr(op, IF near THEN BASE + Len(setup) + 4 ELSE 4660)
        \o EncOp(OP_HLT) \o EncOp(OP_NOP) \o EncOp(OP_HLT) :
      setup \in FlagSetups, op \in {OP_JMP, OP_JZ, OP_JNZ, OP_JC, OP_JNC},
      near \in BOOLEAN }
    \cup
    { EncRegImm(OP_LOAD_IMM, REG_A, op + 256 * 32)
        \o EncAddrReg(OP_STORE, MEMORY_SIZE - 3, REG_A)
        \o EncAddr(OP_JMP, MEMORY_SIZE - 3) :
      op \in {OP_JZ, OP_JNZ} }

\* LOAD A,3 ; LOAD B,5 ; PUSH A ; <instruction whose destination index names
\* no register> ; HLT
BadRegPrograms ==
    LET Pre == EncRegImm(OP_LOAD_IMM, REG_A, 3) \o EncRegImm(OP_LOAD_IMM, REG_B, 5)
                 \o EncReg(OP_PUSH, REG_A)
    IN  { Pre \o EncRegImm(op, r, BASE) \o EncOp(OP_HLT) :
          op \in {OP_LOAD_IMM, OP_LOAD_MEM, OP_ADDI, OP_SUBI, OP_IN}, r \in {6, 255} }
        \cup
        { Pre \o EncReg(op, r) \o EncOp(OP_HLT) :
          op \in {OP_POP, OP_INC, OP_DEC, OP_NOT}, r \in {6, 255} }
        \cup
        { Pre \o EncRegShift(op, r, 1) \o EncOp(OP_HLT) :
          op \in {OP_SHL, OP_SHR}, r \in {6, 255} }
        \cup
        { Pre \o EncPacked(op, r1, r2) \o EncOp(OP_HLT) :
          op \in {OP_MOV, OP_ADD, OP_SUB, OP_MUL, OP_DIV, OP_AND, OP_OR, OP_XOR},
          r1 \in {6, 15}, r2 \in {REG_B, 6} }

\* instructions that move data or control, with operands of every kind: a
\* register, PC, an index that names no register, RAM and port addresses
MovingInstructions ==
    { EncRegImm(OP_LOAD_IMM, 7, 32768),
      EncRegImm(OP_LOAD_MEM, REG_B, BASE),
      EncRegImm(OP_LOAD_MEM, REG_PC, 0),
      EncAddrReg(OP_STORE, 512, REG_D),
      EncAddrReg(OP_STORE, PORT_TIMER_CTRL, REG_SP),
      EncPacked(OP_MOV, REG_B, REG_D),
      EncPacked(OP_MOV, REG_PC, REG_D),
      EncPacked(OP_MOV, 6, 15),
      EncReg(OP_PUSH, REG_D),
      EncReg(OP_PUSH, REG_PC),
      EncReg(OP_POP, REG_B),
      EncReg(OP_POP, REG_PC),
      EncAddr(OP_CALL, 4660),
      EncOp(OP_RET),
      EncRegImm(OP_IN, REG_B, PORT_STDIN),
      EncRegImm(OP_IN, REG_B, PORT_TIMER_VALUE),
      EncRegImm(OP_IN, 9, PORT_STDIN),
      EncAddrReg(OP_OUT, PORT_STDOUT, REG_D),
      EncAddrReg(OP_OUT, PORT_TIMER_CTRL, REG_SP),
      EncAddrReg(OP_OUT, PORT_TIMER_VALUE, REG_SP) }

\* <flags> ; <instruction> ; HLT with Z, C and O set, and with C and N set;
\* then <flags> ; PUSH D ; <conditional jump> 0x1234
FramePrograms ==
    { setup \o ins \o EncOp(OP_HLT) :
      setup \in {SetZCO, EncRegImm(OP_CMPI, REG_D, 1)}, ins \in MovingInstructions }
    \cup
    { setup \o EncReg(OP_PUSH, REG_D) \o EncAddr(op, 4660) :
      setup \in {SetZCO, EncRegImm(OP_CMPI, REG_D, 1)},
      op \in {OP_JZ, OP_JNZ, OP_JC, OP_JNC} }

\* NOP ; <instruction with PC as an operand> ; HLT: PC read, PC written, and
\* PC compared with the address of the instruction itself and with the next
PcPrograms ==
    { EncOp(OP_NOP) \o ins \o EncOp(OP_HLT) :
      ins \in { EncPacked(OP_MOV, REG_B, REG_PC),
                EncPacked(OP_MOV, REG_PC, REG_PC),
                EncPacked(OP_MUL, REG_PC, REG_PC),
                EncPacked(OP_XOR, REG_PC, REG_A),
                EncAddrReg(OP_STORE, 512, REG_PC),
                EncAddrReg(OP_OUT, PORT_STDOUT, REG_PC),
                EncRegImm(OP_LOAD_IMM, REG_PC, 4660),
                EncRegImm(OP_CMPI, REG_PC, BASE + 1),
                EncRegImm(OP_CMPI, REG_PC, BASE + 5),
                EncRegImm(OP_ADDI, REG_PC, 4660),
                EncRegImm(OP_IN, REG_PC, PORT_STDIN),
                EncReg(OP_INC, REG_PC),
                EncReg(OP_NOT, REG_PC),
                EncRegShift(OP_SHL, REG_PC, 1) } }

Programs ==
    BinaryPrograms \cup RegPairPrograms \cup ImmediatePrograms \cup StackPrograms
    \cup CallPrograms \cup OtherPrograms \cup AluPrograms \cup ShiftPrograms
    \cup JumpPrograms \cup BadRegPrograms \cup FramePrograms \cup PcPrograms

\* what the host's stdin may hold when a step starts
StdinChoices == {<<>>, <<65>>, <<65, 66>>}

\* what the build may make of an undefined shift
UBChoices == {"mask", "zero"}

-----------------------------------------------------------------------------
(* assembler.h / assembler.c: the assembler.  A C string is a sequence of  *)
(* one-character strings without its terminating NUL.                     *)

MAX_LABELS == 256
MAX_LABEL_LEN == 64
MAX_LINE_LEN == 256
MAX_PROGRAM_SIZE == 65536

LowerCase ==
    <<"a", "b", "c", "d", "e", "f", "g", "h", "i", "j", "k", "l", "m",
      "n", "o", "p", "q", "r", "s", "t", "u", "v", "w", "x", "y", "z">>
UpperCase ==
    <<"A", "B", "C", "D", "E", "F", "G", "H", "I", "J", "K", "L", "M",
      "N", "O", "P", "Q", "R", "S", "T", "U", "V", "W", "X", "Y", "Z">>
DecDigits == <<"0", "1", "2", "3", "4", "5", "6", "7", "8", "9">>

\* the first position of x in s, 0 when it is not there
IndexOf(x, s) ==
    IF \E i \in 1..Len(s) : s[i] = x
    THEN CHOOSE i \in 1..Len(s) : s[i] = x /\ \A j \in 1..(i - 1) : s[j] # x
    ELSE 0

\* <ctype.h> in the "C" locale
toupper(c) == IF IndexOf(c, LowerCase) > 0 THEN UpperCase[IndexOf(c, LowerCase)] ELSE c
isspace(c) == c \in {" ", "\t", "\n", "\r", "\f"}

\* for (char *p = s; *p; p++) *p = toupper(*p);
ToUpper(s) == [i \in 1..Len(s) |-> toupper(s[i])]

\* strchr(s, c) as a position, 0 for NULL
strchr(s, c) == IndexOf(c, s)

\* the string from position i on, and the string cut at position i
From(s, i) == SubSeq(s, i, Len(s))
Upto(s, i) == SubSeq(s, 1, i)

\* while (isspace(*str)) str++;
RECURSIVE SkipSpace(_)
SkipSpace(s) == IF s # <<>> /\ isspace(Head(s)) THEN SkipSpace(Tail(s)) ELSE s

\* while (end > str && isspace(*end)) end--;  *(end + 1) = '\0';
RECURSIVE CutSpace(_)
CutSpace(s) ==
    IF Len(s) > 1 /\ isspace(s[Len(s)]) THEN CutSpace(Upto(s, Len(s) - 1)) ELSE s

\* trim: leading and trailing whitespace removed
trim(str) == CutSpace(SkipSpace(str))

\* the value of a digit in strtol, 36 for a character that is none
DigitValue(c) ==
    IF IndexOf(c, DecDigits) > 0 THEN IndexOf(c, DecDigits) - 1
    ELSE IF IndexOf(toupper(c), UpperCase) > 0 THEN 9 + IndexOf(toupper(c), UpperCase)
    ELSE 36

\* strtol's digit loop from position i; the value is kept modulo 2^16, which
\* is all that the cast to uint16_t leaves of it
RECURSIVE StrtolDigits(_, _, _, _)
StrtolDigits(s, i, base, acc) ==
    IF i <= Len(s) /\ DigitValue(s[i]) < base
    THEN StrtolDigits(s, i + 1, base, (acc * base + DigitValue(s[i])) % 65536)
    ELSE [num |-> acc, end |-> i]

\* strtol(s, &endptr, base) for a value within the range of long: white
\* space, a sign, for base 16 a 0x prefix, digits; without any digit the
\* value is 0 and endptr is s
strtol(s, base) ==
    LET i0 == Len(s) - Len(SkipSpace(s)) + 1
        neg == i0 <= Len(s) /\ s[i0] = "-"
        i1 == IF i0 <= Len(s) /\ s[i0] \in {"+", "-"} THEN i0 + 1 ELSE i0
        prefix == /\ base = 16
                  /\ i1 + 2 <= Len(s)
                  /\ s[i1] = "0"
                  /\ s[i1 + 1] \in {"x", "X"}
                  /\ DigitValue(s[i1 + 2]) < 16
        i2 == IF prefix THEN i1 + 2 ELSE i1
        d == StrtolDigits(s, i2, base, 0)
    IN  IF d.end = i2
        THEN [num |-> 0, end |-> 1]
        ELSE [num |-> IF neg THEN (65536 - d.num) % 65536 ELSE d.num, end |-> d.end]

RegisterNames == <<<<"A">>, <<"B">>, <<"C">>, <<"D">>, <<"S", "P">>, <<"P", "C">>>>

\* asm_parse_register: the index of the name, -1 for any other string
asm_parse_register(name) == IndexOf(name, RegisterNames) - 1

\* faulty variant: every number is read in base 10
asm_parse_number_decimal(str) ==
    LET r == strtol(str, 10)
    IN  IF r.end <= Len(str) /\ ~isspace(str[r.end])
        THEN [v |-> -1, value |-> 0]
        ELSE [v |-> 0, value |-> r.num]

\* asm_parse_number: base 16 after 0x or 0X, else base 10; -1 when a
\* character other than white space follows the digits
asm_parse_number(str) ==
    LET base == IF Len(str) >= 2 /\ str[1] = "0" /\ str[2] \in {"x", "X"}
                THEN 16 ELSE 10
        r == strtol(str, base)
    IN  IF r.end <= Len(str) /\ ~isspace(str[r.end])
        THEN [v |-> -1, value |-> 0]
        ELSE [v |-> 0, value |-> r.num]

\* Assembler asm_ctx; asm_init(&asm_ctx): everything cleared.  output is kept
\* sparsely like the CPU's memory, labels as the sequence of the label_count
\* entries in use
asm_init ==
    [output |-> <<>>, output_size |-> 0, labels |-> <<>>, current_line |-> 0,
     has_errors |-> FALSE]

\* what strncpy(name, MAX_LABEL_LEN - 1) stores of a name in the zeroed entry
StoredName(name) ==
    IF Len(name) > MAX_LABEL_LEN - 1 THEN Upto(name, MAX_LABEL_LEN - 1) ELSE name

\* faulty variant: no duplicate check
asm_add_label_unchecked(a, name, address) ==
    IF Len(a.labels) >= MAX_LABELS
    THEN [v |-> -1, a |-> a, diag |-> "Too many labels"]
    ELSE [v |-> 0,
          a |-> [a EXCEPT !.labels = Append(@, [name |-> StoredName(name),
                                                address |-> address])],
          diag |-> ""]

\* asm_add_label: capacity check, duplicate check, then the entry is stored
asm_add_label(a, name, address) ==
    IF Len(a.labels) >= MAX_LABELS
    THEN [v |-> -1, a |-> a, diag |-> "Too many labels"]
    ELSE IF \E i \in 1..Len(a.labels) : a.labels[i].name = name
    THEN [v |-> -1, a |-> a, diag |-> "Duplicate label"]
    ELSE [v |-> 0,
          a |-> [a EXCEPT !.labels = Append(@, [name |-> StoredName(name),
                                                address |-> address])],
          diag |-> ""]

\* asm_find_label: the address of the first entry of that name, -1 without
asm_find_label(a, name) ==
    IF \E i \in 1..Len(a.labels) : a.labels[i].name = name
    THEN a.labels[CHOOSE i \in 1..Len(a.labels) :
                     /\ a.labels[i].name = name
                     /\ \A j \in 1..(i - 1) : a.labels[j].name # name].address
    ELSE -1

\* emit_byte: output[output_size++] = byte while there is room
emit_byte(a, byte) ==
    IF a.output_size < MAX_PROGRAM_SIZE
    THEN [a EXCEPT !.output = MemPut(@, a.output_size, U8(byte)), !.output_size = @ + 1]
    ELSE a

\* faulty variant: high byte first
emit_word_high_first(a, word) ==
    emit_byte(emit_byte(a, BitAnd(word \div 256, 255)), BitAnd(word, 255))

\* emit_word: low byte, then high byte
emit_word(a, word) ==
    emit_byte(emit_byte(a, BitAnd(word, 255)), BitAnd(word \div 256, 255))

\* the outcome of a line: the return value, the context, the message
LineOk(a) == [v |-> 0, a |-> a, diag |-> ""]
LineError(a, message) == [v |-> -1, a |-> a, diag |-> message]

\* arg[0] == c, false for the empty string
StartsWith(arg, c) == arg # <<>> /\ arg[1] = c

\* *end = '\0'; arg + 1: the text between the '[' and the first ']'
Bracketed(arg) == SubSeq(arg, 2, strchr(arg, "]") - 1)

\* (r1 << 4) | r2
PackRegs(r1, r2) == BitOr(r1 * 16, r2)

\* faulty variant: the opcode and the register are emitted before the
\* second operand is looked at
enc_LOAD_early(a, arg1, arg2) ==
    LET reg == asm_parse_register(arg1)
        b == emit_byte(emit_byte(a, IF StartsWith(arg2, "[") THEN OP_LOAD_MEM
                                    ELSE OP_LOAD_IMM), reg)
    IN  IF reg < 0 THEN LineError(a, "Invalid register")
        ELSE IF StartsWith(arg2, "[")
        THEN IF strchr(arg2, "]") = 0 THEN LineError(b, "Missing ']'")
             ELSE LET addr == asm_parse_number(Bracketed(arg2))
                  IN  IF addr.v < 0 THEN LineError(b, "Invalid address")
                      ELSE LineOk(emit_word(b, addr.value))
        ELSE LET imm == asm_parse_number(arg2)
             IN  IF imm.v < 0 THEN LineError(b, "Invalid immediate value")
                 ELSE LineOk(emit_word(b, imm.value))

\* LOAD r, [addr] and LOAD r, imm
enc_LOAD(a, arg1, arg2) ==
    LET reg == asm_parse_register(arg1)
    IN  IF reg < 0 THEN LineError(a, "Invalid register")
        ELSE IF StartsWith(arg2, "[")
        THEN IF strchr(arg2, "]") = 0 THEN LineError(a, "Missing ']'")
             ELSE LET addr == asm_parse_number(Bracketed(arg2))
                  IN  IF addr.v < 0 THEN LineError(a, "Invalid address")
                      ELSE LineOk(emit_word(emit_byte(emit_byte(a, OP_LOAD_MEM), reg),
                                            addr.value))
        ELSE LET imm == asm_parse_number(arg2)
             IN  IF imm.v < 0 THEN LineError(a, "Invalid immediate value")
                 ELSE LineOk(emit_word(emit_byte(emit_byte(a, OP_LOAD_IMM), reg),
                                       imm.value))

\* STORE [addr], r
enc_STORE(a, arg1, arg2) ==
    IF ~StartsWith(arg1, "[") THEN LineError(a, "STORE requires [addr] format")
    ELSE IF strchr(arg1, "]") = 0 THEN LineError(a, "Missing ']'")
    ELSE LET addr == asm_parse_number(Bracketed(arg1))
             reg == asm_parse_register(arg2)
         IN  IF addr.v < 0 THEN LineError(a, "Invalid address")
             ELSE IF reg < 0 THEN LineError(a, "Invalid register")
             ELSE LineOk(emit_byte(emit_word(emit_byte(a, OP_STORE), addr.value), reg))

\* MOV, ADD, SUB, MUL, DIV, AND, OR, XOR, CMP r1, r2
RegRegOp(instr) ==
    CASE instr = <<"M", "O", "V">> -> OP_MOV
      [] instr = <<"A", "D", "D">> -> OP_ADD
      [] instr = <<"S", "U", "B">> -> OP_SUB
      [] instr = <<"M", "U", "L">> -> OP_MUL
      [] instr = <<"D", "I", "V">> -> OP_DIV
      [] instr = <<"A", "N", "D">> -> OP_AND
      [] instr = <<"O", "R">> -> OP_OR
      [] instr = <<"X", "O", "R">> -> OP_XOR
      [] instr = <<"C", "M", "P">> -> OP_CMP
      [] OTHER -> -1

\* faulty variant: the source register in the high nibble
enc_RegReg_swapped(a, op, arg1, arg2) ==
    LET r1 == asm_parse_register(arg1)
        r2 == asm_parse_register(arg2)
    IN  IF r1 < 0 \/ r2 < 0 THEN LineError(a, "Invalid registers")
        ELSE LineOk(emit_byte(emit_byte(a, op), PackRegs(r2, r1)))

enc_RegReg(a, op, arg1, arg2) ==
    LET r1 == asm_parse_register(arg1)
        r2 == asm_parse_register(arg2)
    IN  IF r1 < 0 \/ r2 < 0 THEN LineError(a, "Invalid registers")
        ELSE LineOk(emit_byte(emit_byte(a, op), PackRegs(r1, r2)))

\* PUSH, POP, INC, DEC, NOT r
RegOp(instr) ==
    CASE instr = <<"P", "U", "S", "H">> -> OP_PUSH
      [] instr = <<"P", "O", "P">> -> OP_POP
      [] instr = <<"I", "N", "C">> -> OP_INC
      [] instr = <<"D", "E", "C">> -> OP_DEC
      [] instr = <<"N", "O", "T">> -> OP_NOT
      [] OTHER -> -1

enc_Reg(a, op, arg1) ==
    LET reg == asm_parse_register(arg1)
    IN  IF reg < 0 THEN LineError(a, "Invalid register")
        ELSE LineOk(emit_byte(emit_byte(a, op), reg))

\* ADDI, SUBI, CMPI r, imm
RegImmOp(instr) ==
    CASE instr = <<"A", "D", "D", "I">> -> OP_ADDI
      [] instr = <<"S", "U", "B", "I">> -> OP_SUBI
      [] instr = <<"C", "M", "P", "I">> -> OP_CMPI
      [] OTHER -> -1

enc_RegImm(a, op, arg1, arg2) ==
    LET reg == asm_parse_register(arg1)
        imm == asm_parse_number(arg2)
    IN  IF reg < 0 \/ imm.v < 0 THEN LineError(a, "Invalid arguments")
        ELSE LineOk(emit_word(emit_byte(emit_byte(a, op), reg), imm.value))

\* SHL, SHR r, imm8
ShiftOp(instr) ==
    CASE instr = <<"S", "H", "L">> -> OP_SHL
      [] instr = <<"S", "H", "R">> -> OP_SHR
      [] OTHER -> -1

enc_Shift(a, op, arg1, arg2) ==
    LET reg == asm_parse_register(arg1)
        shift == asm_parse_number(arg2)
    IN  IF reg < 0 \/ shift.v < 0 THEN LineError(a, "Invalid shift arguments")
        ELSE LineOk(emit_byte(emit_byte(emit_byte(a, op), reg),
                              BitAnd(shift.value, 255)))

\* JMP, JZ, JNZ, JC, JNC, CALL label_or_addr
JumpOp(instr) ==
    CASE instr = <<"J", "M", "P">> -> OP_JMP
      [] instr = <<"J", "Z">> -> OP_JZ
      [] instr = <<"J", "N", "Z">> -> OP_JNZ
      [] instr = <<"J", "C">> -> OP_JC
      [] instr = <<"J", "N", "C">> -> OP_JNC
      [] instr = <<"C", "A", "L", "L">> -> OP_CALL
      [] OTHER -> -1

\* faulty variant: a name that is not in the table is taken as address 0
enc_Jump_lenient(a, op, arg1) ==
    LET addr == asm_parse_number(arg1)
    IN  IF addr.v < 0
        THEN IF asm_find_label(a, arg1) < 0
             THEN LineOk(emit_word(emit_byte(a, op), 0))
             ELSE LineOk(emit_word(emit_byte(a, op), asm_find_label(a, arg1)))
        ELSE LineOk(emit_word(emit_byte(a, op), addr.value))

\* the operand is tried as a number first, then looked up as a label
enc_Jump(a, op, arg1) ==
    LET addr == asm_parse_number(arg1)
    IN  IF addr.v < 0
        THEN IF asm_find_label(a, arg1) < 0
             THEN LineError(a, "Undefined label")
             ELSE LineOk(emit_word(emit_byte(a, op), asm_find_label(a, arg1)))
        ELSE LineOk(emit_word(emit_byte(a, op), addr.value))

\* OUT port, r
enc_OUT(a, arg1, arg2) ==
    LET port == asm_parse_number(arg1)
        reg == asm_parse_register(arg2)
    IN  IF port.v < 0 THEN LineError(a, "Invalid port number")
        ELSE IF reg < 0 THEN LineError(a, "Invalid register")
        ELSE LineOk(emit_byte(emit_word(emit_byte(a, OP_OUT), port.value), reg))

\* IN r, port
enc_IN(a, arg1, arg2) ==
    LET reg == asm_parse_register(arg1)
        port == asm_parse_number(arg2)
    IN  IF reg < 0 \/ port.v < 0 THEN LineError(a, "Invalid IN arguments")
        ELSE LineOk(emit_word(emit_byte(emit_byte(a, OP_IN), reg), port.value))

\* the chain of strcmp(instr, ...) of asm_parse_line
Encode(a, instr, arg1, arg2) ==
    IF instr = <<"N", "O", "P">> THEN LineOk(emit_byte(a, OP_NOP))
    ELSE IF instr = <<"H", "L", "T">> THEN LineOk(emit_byte(a, OP_HLT))
    ELSE IF instr = <<"L", "O", "A", "D">> THEN enc_LOAD(a, arg1, arg2)
    ELSE IF instr = <<"S", "T", "O", "R", "E">> THEN enc_STORE(a, arg1, arg2)
    ELSE IF RegRegOp(instr) >= 0 THEN enc_RegReg(a, RegRegOp(instr), arg1, arg2)
    ELSE IF RegOp(instr) >= 0 THEN enc_Reg(a, RegOp(instr), arg1)
    ELSE IF RegImmOp(instr) >= 0 THEN enc_RegImm(a, RegImmOp(instr), arg1, arg2)
    ELSE IF ShiftOp(instr) >= 0 THEN enc_Shift(a, ShiftOp(instr), arg1, arg2)
    ELSE IF JumpOp(instr) >= 0 THEN enc_Jump(a, JumpOp(instr), arg1)
    ELSE IF instr = <<"R", "E", "T">> THEN LineOk(emit_byte(a, OP_RET))
    ELSE IF instr = <<"O", "U", "T">> THEN enc_OUT(a, arg1, arg2)
    ELSE IF instr = <<"I", "N">> THEN enc_IN(a, arg1, arg2)
    ELSE LineError(a, "Unknown instruction")

\* the line cut at the first ';' and then at the first '#'
CutAt(line, c) == IF strchr(line, c) > 0 THEN Upto(line, strchr(line, c) - 1) ELSE line
StripComment(line) == CutAt(CutAt(line, ";"), "#")

\* an argument is upper-cased unless it starts with '0' or '['
FoldArg(arg) ==
    IF ~StartsWith(arg, "0") /\ ~StartsWith(arg, "[") THEN ToUpper(arg) ELSE arg

\* the mnemonic up to the first space, upper-cased, and the two arguments
\* around the first comma of what follows it
SplitLine(line) ==
    LET space == strchr(line, " ")
        instr == IF space > 0 THEN Upto(line, space - 1) ELSE line
        args == IF space > 0 THEN trim(From(line, space + 1)) ELSE <<>>
        comma == strchr(args, ",")
    IN  [instr |-> ToUpper(instr),
         arg1 |-> FoldArg(trim(IF comma > 0 THEN Upto(args, comma - 1) ELSE args)),
         arg2 |-> IF comma > 0 THEN FoldArg(trim(From(args, comma + 1))) ELSE <<>>]

\* the part of asm_parse_line after the label: split, encode
ParseInstruction(a, line) ==
    IF line = <<>> THEN LineOk(a)
    ELSE Encode(a, SplitLine(line).instr, SplitLine(line).arg1, SplitLine(line).arg2)

\* faulty variant: the label address is the offset in the image
LabelAddrOffset(a) == U16(a.output_size)

\* uint16_t label_addr = 0x0100 + asm_ctx->output_size
LabelAddr(a) == U16(256 + a.output_size)

\* asm_parse_line: trim, strip the comment, define the label before the
\* first ':', encode the instruction that remains
asm_parse_line(a, text) ==
    LET line == trim(StripComment(trim(text)))
        colon == strchr(line, ":")
    IN  IF line = <<>> THEN LineOk(a)
        ELSE IF colon > 0
        THEN LET added == asm_add_label(a, ToUpper(trim(Upto(line, colon - 1))),
                                        LabelAddr(a))
             IN  IF added.v < 0 THEN added
                 ELSE ParseInstruction(added.a, trim(From(line, colon + 1)))
        ELSE ParseInstruction(a, line)

-----------------------------------------------------------------------------
(* Assembler sources.  Every line is shorter than MAX_LINE_LEN, every     *)
(* mnemonic shorter than 32 and every argument shorter than 64            *)
(* characters, the sizes of asm_parse_line's buffers.                     *)

\* comments, a blank line, labels in mixed case, a backward jump
Source_demo ==
    << <<";", " ", "d", "e", "m", "o">>,
       <<>>,
       <<" ", " ", "L", "O", "A", "D", " ", "A", ",", " ", "2">>,
       <<"L", "o", "o", "p", ":", " ", "D", "E", "C", " ", "A">>,
       <<" ", " ", "j", "n", "z", " ", "l", "o", "o", "p", " ", " ", " ", "#", " ", "b", "a", "c", "k">>,
       <<"E", "N", "D", ":">>,
       <<" ", " ", "H", "L", "T">> >>

\* a forward jump by number, a call to a label defined before it
Source_call ==
    << <<" ", " ", "J", "M", "P", " ", "0", "x", "0", "1", "0", "6">>,
       <<"s", "u", "b", ":", " ", "I", "N", "C", " ", "A">>,
       <<" ", " ", "R", "E", "T">>,
       <<"m", "a", "i", "n", ":", " ", "C", "A", "L", "L", " ", "s", "u", "b">>,
       <<" ", " ", "H", "L", "T">> >>

\* the conditional jumps to a label
Source_jumps ==
    << <<"l", ":", " ", "N", "O", "P">>,
       <<" ", " ", "J", "Z", " ", "l">>,
       <<" ", " ", "J", "C", " ", "l">>,
       <<" ", " ", "J", "N", "C", " ", "L">> >>

\* a jump to the label of its own line
Source_self ==
    << <<"N", "O", "P">>,
       <<"s", "e", "l", "f", ":", " ", "J", "M", "P", " ", "s", "e", "l", "f">> >>

\* ports and memory operands
Source_io ==
    << <<"L", "O", "A", "D", " ", "A", ",", " ", "0", "x", "4", "1">>,
       <<"O", "U", "T", " ", "0", "x", "F", "F", "0", "0", ",", " ", "A">>,
       <<"I", "N", " ", "B", ",", " ", "0", "x", "F", "F", "0", "1">>,
       <<"S", "T", "O", "R", "E", " ", "[", "0", "x", "0", "2", "0", "0", "]", ",", " ", "B">>,
       <<"L", "O", "A", "D", " ", "C", ",", " ", "[", "0", "x", "0", "2", "0", "0", "]">>,
       <<"H", "L", "T">> >>

\* a jump to a label that is defined two lines later
Source_fwd ==
    << <<" ", " ", "J", "M", "P", " ", "e", "n", "d">>,
       <<" ", " ", "N", "O", "P">>,
       <<"e", "n", "d", ":", " ", "H", "L", "T">> >>

\* a label whose name starts with the digit 0
Source_zero ==
    << <<"0", "l", "o", "o", "p", ":", " ", "N", "O", "P">>,
       <<"J", "M", "P", " ", "0", "l", "o", "o", "p">>,
       <<"H", "L", "T">> >>

\* a label defined twice, in different case
Source_dup ==
    << <<"t", "o", "p", ":", " ", "N", "O", "P">>,
       <<"I", "N", "C", " ", "A">>,
       <<"T", "o", "p", ":", " ", "H", "L", "T">>,
       <<"N", "O", "P">> >>

\* the same label of MAX_LABEL_LEN characters on two lines
Source_long ==
    << [i \in 1..MAX_LABEL_LEN |-> "A"] \o <<":", " ", "N", "O", "P">>,
       [i \in 1..MAX_LABEL_LEN |-> "A"] \o <<":", " ", "H", "L", "T">> >>

\* a mnemonic that does not exist
Source_unknown ==
    << <<"N", "O", "P">>,
       <<"F", "O", "O", " ", "A">>,
       <<"H", "L", "T">> >>

\* a label in front of an instruction with a wrong register
Source_badreg ==
    << <<"L", "O", "A", "D", " ", "A", ",", " ", "1">>,
       <<"l", "b", "l", ":", " ", "M", "O", "V", " ", "A", ",", " ", "E">>,
       <<"H", "L", "T">> >>

\* a number followed by a letter
Source_badnum ==
    << <<"I", "N", "C", " ", "A">>,
       <<"L", "O", "A", "D", " ", "A", ",", " ", "1", "2", "x">>,
       <<"H", "L", "T">> >>

\* a memory operand without its closing bracket
Source_bracket ==
    << <<"I", "N", "C", " ", "A">>,
       <<"L", "O", "A", "D", " ", "A", ",", " ", "[", "0", "x", "2", "0", "0">>,
       <<"H", "L", "T">> >>

\* STORE without brackets
Source_store ==
    << <<"L", "O", "A", "D", " ", "A", ",", " ", "7">>,
       <<"S", "T", "O", "R", "E", " ", "0", "x", "2", "0", "0", ",", " ", "A">>,
       <<"H", "L", "T">> >>

\* programs/factorial.asm, every line of it
Source_factorial ==
    << <<"S", "T", "A", "R", "T", ":">>,
       <<" ", " ", " ", " ", "L", "O", "A", "D", " ", "S", "P", ",", " ", "0", "x", "F", "E", "F", "F", " ", " ", " ", " ", " ", " ", " ", " ", " ", " ", ";", " ", "I", "n", "i", "t", "i", "a", "l", "i", "z", "e", " ", "s", "t", "a", "c", "k", " ", "p", "o", "i", "n", "t", "e", "r", " ", "n", "e", "a", "r", " ", "t", "o", "p", " ", "o", "f", " ", "R", "A", "M">>,
       <<>>,
       <<" ", " ", " ", " ", "L", "O", "A", "D", " ", "A", ",", " ", "5", "1", " ", " ", " ", " ", " ", " ", " ", " ", " ", " ", " ", " ", " ", " ", " ", ";", " ", "'", "3", "'", " ", "+", " ", "0", "?", " ", "A", "c", "t", "u", "a", "l", "l", "y", " ", "A", "S", "C", "I", "I", " ", "5", "1", " ", "=", " ", "'", "3", "'">>,
       <<" ", " ", " ", " ", "O", "U", "T", " ", "0", "x", "F", "F", "0", "0", ",", " ", "A", " ", " ", " ", " ", " ", " ", " ", " ", " ", " ", " ", " ", ";", " ", "P", "r", "i", "n", "t", " ", "'", "3", "'">>,
       <<" ", " ", " ", " ", "L", "O", "A", "D", " ", "A", ",", " ", "3", "3", " ", " ", " ", " ", " ", " ", " ", " ", " ", " ", " ", " ", " ", " ", " ", ";", " ", "A", "S", "C", "I", "I", " ", "'", "!", "'", " ", "=", " ", "3", "3">>,
       <<" ", " ", " ", " ", "O", "U", "T", " ", "0", "x", "F", "F", "0", "0", ",", " ", "A", " ", " ", " ", " ", " ", " ", " ", " ", " ", " ", " ", " ", ";", " ", "P", "r", "i", "n", "t", " ", "'", "!", "'">>,
       <<" ", " ", " ", " ", "L", "O", "A", "D", " ", "A", ",", " ", "3", "2", " ", " ", " ", " ", " ", " ", " ", " ", " ", " ", " ", " ", " ", " ", " ", ";", " ", "A", "S", "C", "I", "I", " ", "s", "p", "a", "c", "e">>,
       <<" ", " ", " ", " ", "O", "U", "T", " ", "0", "x", "F", "F", "0", "0", ",", " ", "A", " ", " ", " ", " ", " ", " ", " ", " ", " ", " ", " ", " ", ";", " ", "P", "r", "i", "n", "t", " ", "s", "p", "a", "c", "e">>,
       <<" ", " ", " ", " ", "L", "O", "A", "D", " ", "A", ",", " ", "6", "1", " ", " ", " ", " ", " ", " ", " ", " ", " ", " ", " ", " ", " ", " ", " ", ";", " ", "A", "S", "C", "I", "I", " ", "'", "=", "'">>,
       <<" ", " ", " ", " ", "O", "U", "T", " ", "0", "x", "F", "F", "0", "0", ",", " ", "A", " ", " ", " ", " ", " ", " ", " ", " ", " ", " ", " ", " ", ";", " ", "P", "r", "i", "n", "t", " ", "'", "=", "'">>,
       <<" ", " ", " ", " ", "L", "O", "A", "D", " ", "A", ",", " ", "3", "2", " ", " ", " ", " ", " ", " ", " ", " ", " ", " ", " ", " ", " ", " ", " ", ";", " ", "A", "S", "C", "I", "I", " ", "s", "p", "a", "c", "e">>,
       <<" ", " ", " ", " ", "O", "U", "T", " ", "0", "x", "F", "F", "0", "0", ",", " ", "A", " ", " ", " ", " ", " ", " ", " ", " ", " ", " ", " ", " ", ";", " ", "P", "r", "i", "n", "t", " ", "s", "p", "a", "c", "e">>,
       <<" ", " ", " ", " ">>,
       <<" ", " ", " ", " ", "L", "O", "A", "D", " ", "A", ",", " ", "3", " ", " ", " ", " ", " ", " ", " ", " ", " ", " ", " ", " ", " ", " ", " ", " ", ";", " ", "C", "o", "m", "p", "u", "t", "e", " ", "f", "a", "c", "t", "o", "r", "i", "a", "l", "(", "3", ")">>,
       <<" ", " ", " ", " ", "C", "A", "L", "L", " ", "F", "A", "C", "T", "O", "R", "I", "A", "L", " ", " ", " ", " ", " ", " ", " ", " ", " ", " ", " ", ";", " ", "C", "a", "l", "l", " ", "r", "e", "c", "u", "r", "s", "i", "v", "e", " ", "f", "u", "n", "c", "t", "i", "o", "n">>,
       <<>>,
       <<" ", " ", " ", " ", "A", "D", "D", "I", " ", "A", ",", " ", "4", "8", " ", " ", " ", " ", " ", " ", " ", " ", " ", " ", " ", " ", " ", " ", " ", ";", " ", "C", "o", "n", "v", "e", "r", "t", " ", "n", "u", "m", "e", "r", "i", "c", " ", "r", "e", "s", "u", "l", "t", " ", "t", "o", " ", "A", "S", "C", "I", "I", " ", "d", "i", "g", "i", "t">>,
       <<" ", " ", " ", " ", "O", "U", "T", " ", "0", "x", "F", "F", "0", "0", ",", " ", "A", " ", " ", " ", " ", " ", " ", " ", " ", " ", " ", " ", " ", ";", " ", "P", "r", "i", "n", "t", " ", "t", "h", "e", " ", "r", "e", "s", "u", "l", "t", " ", "c", "h", "a", "r", "a", "c", "t", "e", "r">>,
       <<" ", " ", " ", " ", "L", "O", "A", "D", " ", "A", ",", " ", "1", "0", " ", " ", " ", " ", " ", " ", " ", " ", " ", " ", " ", " ", " ", " ", " ", ";", " ", "N", "e", "w", "l", "i", "n", "e">>,
       <<" ", " ", " ", " ", "O", "U", "T", " ", "0", "x", "F", "F", "0", "0", ",", " ", "A">>,
       <<" ", " ", " ", " ", "H", "L", "T", " ", " ", " ", " ", " ", " ", " ", " ", " ", " ", " ", " ", " ", " ", " ", " ", " ", " ", " ", " ", " ", " ", ";", " ", "S", "t", "o", "p", " ", "e", "x", "e", "c", "u", "t", "i", "o", "n">>,
       <<>>,
       <<";", " ", "-", "-", "-", "-", "-", "-", "-", "-", "-", "-", "-", "-", "-", "-", "-", "-", "-", "-", "-", "-", "-", "-", "-", "-", "-", "-", "-", "-", "-", "-", "-", "-", "-", "-", "-", "-", "-", "-", "-", "-", "-", "-", "-", "-", "-", "-", "-", "-", "-", "-", "-", "-", "-", "-", "-", "-", "-">>,
       <<";", " ", "F", "U", "N", "C", "T", "I", "O", "N", ":", " ", "F", "A", "C", "T", "O", "R", "I", "A", "L">>,
       <<";", " ", "I", "n", "p", "u", "t", ":", " ", " ", "A", " ", "=", " ", "n">>,
       <<";", " ", "O", "u", "t", "p", "u", "t", ":", " ", "A", " ", "=", " ", "n", "!">>,
       <<";", " ", "U", "s", "e", "s", " ", "r", "e", "c", "u", "r", "s", "i", "o", "n", ".", " ", "S", "a", "v", "e", "s", " ", "B", ",", " ", "C", ",", " ", "D", " ", "a", "s", " ", "c", "a", "l", "l", "e", "e", "-", "s", "a", "v", "e", "d", " ", "r", "e", "g", "i", "s", "t", "e", "r", "s", ".">>,
       <<";", " ", "-", "-", "-", "-", "-", "-", "-", "-", "-", "-", "-", "-", "-", "-", "-", "-", "-", "-", "-", "-", "-", "-", "-", "-", "-", "-", "-", "-", "-", "-", "-", "-", "-", "-", "-", "-", "-", "-", "-", "-", "-", "-", "-", "-", "-", "-", "-", "-", "-", "-", "-", "-", "-", "-", "-", "-", "-">>,
       <<>>,
       <<"F", "A", "C", "T", "O", "R", "I", "A", "L", ":">>,
       <<" ", " ", " ", " ", "P", "U", "S", "H", " ", "B", " ", " ", " ", " ", " ", " ", " ", " ", " ", " ", " ", " ", " ", " ", " ", " ", " ", " ", " ", ";", " ", "S", "a", "v", "e", " ", "c", "a", "l", "l", "e", "r", "'", "s", " ", "B">>,
       <<" ", " ", " ", " ", "P", "U", "S", "H", " ", "C", " ", " ", " ", " ", " ", " ", " ", " ", " ", " ", " ", " ", " ", " ", " ", " ", " ", " ", " ", ";", " ", "S", "a", "v", "e", " ", "c", "a", "l", "l", "e", "r", "'", "s", " ", "C">>,
       <<" ", " ", " ", " ", "P", "U", "S", "H", " ", "D", " ", " ", " ", " ", " ", " ", " ", " ", " ", " ", " ", " ", " ", " ", " ", " ", " ", " ", " ", ";", " ", "S", "a", "v", "e", " ", "c", "a", "l", "l", "e", "r", "'", "s", " ", "D">>,
       <<" ", " ", " ", " ">>,
       <<" ", " ", " ", " ", "C", "M", "P", "I", " ", "A", ",", " ", "1", " ", " ", " ", " ", " ", " ", " ", " ", " ", " ", " ", " ", " ", " ", " ", " ", ";", " ", "I", "f", " ", "A", " ", "=", "=", " ", "1">>,
       <<" ", " ", " ", " ", "J", "Z", " ", "B", "A", "S", "E", "_", "C", "A", "S", "E", " ", " ", " ", " ", " ", " ", " ", " ", " ", " ", " ", " ", " ", ";", " ", "r", "e", "t", "u", "r", "n", " ", "1">>,
       <<" ", " ", " ", " ", "C", "M", "P", "I", " ", "A", ",", " ", "0", " ", " ", " ", " ", " ", " ", " ", " ", " ", " ", " ", " ", " ", " ", " ", " ", ";", " ", "I", "f", " ", "A", " ", "=", "=", " ", "0">>,
       <<" ", " ", " ", " ", "J", "Z", " ", "B", "A", "S", "E", "_", "C", "A", "S", "E", " ", " ", " ", " ", " ", " ", " ", " ", " ", " ", " ", " ", " ", ";", " ", "r", "e", "t", "u", "r", "n", " ", "1">>,
       <<" ", " ", " ", " ">>,
       <<" ", " ", " ", " ", "P", "U", "S", "H", " ", "A", " ", " ", " ", " ", " ", " ", " ", " ", " ", " ", " ", " ", " ", " ", " ", " ", " ", " ", " ", ";", " ", "S", "a", "v", "e", " ", "c", "u", "r", "r", "e", "n", "t", " ", "A", " ", "(", "t", "h", "e", " ", "n", ")">>,
       <<" ", " ", " ", " ", "S", "U", "B", "I", " ", "A", ",", " ", "1", " ", " ", " ", " ", " ", " ", " ", " ", " ", " ", " ", " ", " ", " ", " ", " ", ";", " ", "P", "r", "e", "p", "a", "r", "e", " ", "A", " ", "=", " ", "n", " ", "-", " ", "1">>,
       <<" ", " ", " ", " ", "C", "A", "L", "L", " ", "F", "A", "C", "T", "O", "R", "I", "A", "L", " ", " ", " ", " ", " ", " ", " ", " ", " ", " ", " ", ";", " ", "R", "e", "c", "u", "r", "s", "i", "v", "e", "l", "y", " ", "c", "o", "m", "p", "u", "t", "e", " ", "(", "n", "-", "1", ")", "!">>,
       <<" ", " ", " ", " ">>,
       <<" ", " ", " ", " ", "P", "O", "P", " ", "B", " ", " ", " ", " ", " ", " ", " ", " ", " ", " ", " ", " ", " ", " ", " ", " ", " ", " ", " ", " ", ";", " ", "R", "e", "s", "t", "o", "r", "e", " ", "o", "r", "i", "g", "i", "n", "a", "l", " ", "n", " ", "(", "f", "r", "o", "m", " ", "P", "U", "S", "H", " ", "A", ")">>,
       <<" ", " ", " ", " ", "M", "U", "L", " ", "A", ",", " ", "B", " ", " ", " ", " ", " ", " ", " ", " ", " ", " ", " ", " ", " ", " ", " ", " ", " ", ";", " ", "A", " ", "=", " ", "(", "n", "-", "1", ")", "!", " ", "*", " ", "n">>,
       <<" ", " ", " ", " ">>,
       <<" ", " ", " ", " ", "P", "O", "P", " ", "D", " ", " ", " ", " ", " ", " ", " ", " ", " ", " ", " ", " ", " ", " ", " ", " ", " ", " ", " ", " ", ";", " ", "R", "e", "s", "t", "o", "r", "e", " ", "s", "a", "v", "e", "d", " ", "r", "e", "g", "i", "s", "t", "e", "r", "s">>,
       <<" ", " ", " ", " ", "P", "O", "P", " ", "C">>,
       <<" ", " ", " ", " ", "P", "O", "P", " ", "B">>,
       <<" ", " ", " ", " ", "R", "E", "T", " ", " ", " ", " ", " ", " ", " ", " ", " ", " ", " ", " ", " ", " ", " ", " ", " ", " ", " ", " ", " ", " ", ";", " ", "R", "e", "t", "u", "r", "n", " ", "t", "o", " ", "c", "a", "l", "l", "e", "r", " ", "w", "i", "t", "h", " ", "A", " ", "=", " ", "n", "!">>,
       <<" ", " ", " ", " ">>,
       <<"B", "A", "S", "E", "_", "C", "A", "S", "E", ":">>,
       <<" ", " ", " ", " ", "L", "O", "A", "D", " ", "A", ",", " ", "1", " ", " ", " ", " ", " ", " ", " ", " ", " ", " ", " ", " ", " ", " ", " ", " ", ";", " ", "f", "a", "c", "t", "o", "r", "i", "a", "l", "(", "0", ")", " ", "=", " ", "f", "a", "c", "t", "o", "r", "i", "a", "l", "(", "1", ")", " ", "=", " ", "1">>,
       <<" ", " ", " ", " ", "P", "O", "P", " ", "D", " ", " ", " ", " ", " ", " ", " ", " ", " ", " ", " ", " ", " ", " ", " ", " ", " ", " ", " ", " ", ";", " ", "R", "e", "s", "t", "o", "r", "e", " ", "s", "a", "v", "e", "d", " ", "r", "e", "g", "i", "s", "t", "e", "r", "s">>,
       <<" ", " ", " ", " ", "P", "O", "P", " ", "C">>,
       <<" ", " ", " ", " ", "P", "O", "P", " ", "B">>,
       <<" ", " ", " ", " ", "R", "E", "T", " ", " ", " ", " ", " ", " ", " ", " ", " ", " ", " ", " ", " ", " ", " ", " ", " ", " ", " ", " ", " ", " ", ";", " ", "R", "e", "t", "u", "r", "n", " ", "t", "o", " ", "c", "a", "l", "l", "e", "r">>,
       <<>>,
       <<>> >>

\* a word pushed and popped again
Source_stack ==
    << <<"L", "O", "A", "D", " ", "A", ",", "0", "x", "1", "2", "3", "4">>,
       <<"P", "U", "S", "H", " ", "A">>,
       <<"L", "O", "A", "D", " ", "A", ",", "0">>,
       <<"P", "O", "P", " ", "A">>,
       <<"H", "L", "T">> >>

\* the digits 0 to 4, written in a loop
Source_loop ==
    << <<"L", "O", "A", "D", " ", "A", ",", "0">>,
       <<"L", "O", "A", "D", " ", "B", ",", "5">>,
       <<"L", ":", " ", "A", "D", "D", "I", " ", "A", ",", "4", "8">>,
       <<"O", "U", "T", " ", "0", "x", "F", "F", "0", "0", ",", "A">>,
       <<"S", "U", "B", "I", " ", "A", ",", "4", "8">>,
       <<"A", "D", "D", "I", " ", "A", ",", "1">>,
       <<"C", "M", "P", " ", "A", ",", "B">>,
       <<"J", "N", "Z", " ", "L">>,
       <<"H", "L", "T">> >>

\* an empty line and a comment line in front of a mnemonic that does not exist
Source_gap ==
    << <<"N", "O", "P">>,
       <<>>,
       <<";", " ", "n", "o", "t", "e">>,
       <<"F", "O", "O", " ", "A">>,
       <<"H", "L", "T">> >>

\* numeric operands left out, empty, followed by a word, or above 16 bits
Source_operands ==
    << <<"L", "O", "A", "D", " ", "A">>,
       <<"A", "D", "D", "I", " ", "B", ",">>,
       <<"L", "O", "A", "D", " ", "C", ",", " ", "[", "]">>,
       <<"S", "T", "O", "R", "E", " ", "[", " ", "]", ",", " ", "A">>,
       <<"L", "O", "A", "D", " ", "D", ",", " ", "1", "2", " ", "x">>,
       <<"S", "H", "L", " ", "A">>,
       <<"I", "N", " ", "A">>,
       <<"L", "O", "A", "D", " ", "A", ",", " ", "7", "0", "0", "0", "0">>,
       <<"L", "O", "A", "D", " ", "B", ",", " ", "0", "X", "1", "f">>,
       <<"O", "U", "T", " ", "0", "x", "f", "f", "0", "0", " ", ",", " ", "A">>,
       <<"H", "L", "T">> >>

\* the sources written out above, by name
TextOf(name) ==
    CASE name = "demo" -> Source_demo
      [] name = "call" -> Source_call
      [] name = "jumps" -> Source_jumps
      [] name = "self" -> Source_self
      [] name = "io" -> Source_io
      [] name = "fwd" -> Source_fwd
      [] name = "zero" -> Source_zero
      [] name = "dup" -> Source_dup
      [] name = "long" -> Source_long
      [] name = "unknown" -> Source_unknown
      [] name = "badreg" -> Source_badreg
      [] name = "badnum" -> Source_badnum
      [] name = "bracket" -> Source_bracket
      [] name = "store" -> Source_store
      [] name = "factorial" -> Source_factorial
      [] name = "stack" -> Source_stack
      [] name = "loop" -> Source_loop
      [] name = "gap" -> Source_gap
      [] name = "operands" -> Source_operands

TextNames ==
    {"demo", "call", "jumps", "self", "io", "fwd", "zero",
     "dup", "long", "unknown", "badreg", "badnum", "bracket", "store",
     "factorial", "stack", "loop", "gap",
     "operands"}

LowerHex == DecDigits \o <<"a", "b", "c", "d", "e", "f">>

tolower(c) == IF IndexOf(c, UpperCase) > 0 THEN LowerCase[IndexOf(c, UpperCase)] ELSE c
ToLower(s) == [i \in 1..Len(s) |-> tolower(s[i])]

\* a number written in decimal, and written as 0x and hexadecimal digits
RECURSIVE DecText(_)
DecText(n) ==
    IF n < 10 THEN <<DecDigits[n + 1]>>
    ELSE Append(DecText(n \div 10), DecDigits[(n % 10) + 1])

RECURSIVE HexDigitsOf(_)
HexDigitsOf(n) ==
    IF n < 16 THEN <<LowerHex[n + 1]>>
    ELSE Append(HexDigitsOf(n \div 16), LowerHex[(n % 16) + 1])

HexText(n) == <<"0", "x">> \o HexDigitsOf(n)

\* the mnemonic of each opcode in the source language
MnemonicOf(op) ==
    CASE op = OP_NOP -> <<"N", "O", "P">>
      [] op = OP_LOAD_IMM -> <<"L", "O", "A", "D">>
      [] op = OP_LOAD_MEM -> <<"L", "O", "A", "D">>
      [] op = OP_STORE -> <<"S", "T", "O", "R", "E">>
      [] op = OP_MOV -> <<"M", "O", "V">>
      [] op = OP_PUSH -> <<"P", "U", "S", "H">>
      [] op = OP_POP -> <<"P", "O", "P">>
      [] op = OP_ADD -> <<"A", "D", "D">>
      [] op = OP_ADDI -> <<"A", "D", "D", "I">>
      [] op = OP_SUB -> <<"S", "U", "B">>
      [] op = OP_SUBI -> <<"S", "U", "B", "I">>
      [] op = OP_MUL -> <<"M", "U", "L">>
      [] op = OP_DIV -> <<"D", "I", "V">>
      [] op = OP_INC -> <<"I", "N", "C">>
      [] op = OP_DEC -> <<"D", "E", "C">>
      [] op = OP_AND -> <<"A", "N", "D">>
      [] op = OP_OR -> <<"O", "R">>
      [] op = OP_XOR -> <<"X", "O", "R">>
      [] op = OP_NOT -> <<"N", "O", "T">>
      [] op = OP_SHL -> <<"S", "H", "L">>
      [] op = OP_SHR -> <<"S", "H", "R">>
      [] op = OP_CMP -> <<"C", "M", "P">>
      [] op = OP_CMPI -> <<"C", "M", "P", "I">>
      [] op = OP_JMP -> <<"J", "M", "P">>
      [] op = OP_JZ -> <<"J", "Z">>
      [] op = OP_JNZ -> <<"J", "N", "Z">>
      [] op = OP_JC -> <<"J", "C">>
      [] op = OP_JNC -> <<"J", "N", "C">>
      [] op = OP_CALL -> <<"C", "A", "L", "L">>
      [] op = OP_RET -> <<"R", "E", "T">>
      [] op = OP_IN -> <<"I", "N">>
      [] op = OP_OUT -> <<"O", "U", "T">>
      [] op = OP_HLT -> <<"H", "L", "T">>

\* the opcodes by the shape of their statement
NoOperandOps == {OP_NOP, OP_RET, OP_HLT}
RegRegOps == {OP_MOV, OP_ADD, OP_SUB, OP_MUL, OP_DIV, OP_AND, OP_OR, OP_XOR, OP_CMP}
RegOps == {OP_PUSH, OP_POP, OP_INC, OP_DEC, OP_NOT}
RegImmOps == {OP_LOAD_IMM, OP_ADDI, OP_SUBI, OP_CMPI, OP_IN}
ShiftOps == {OP_SHL, OP_SHR}
JumpOps == {OP_JMP, OP_JZ, OP_JNZ, OP_JC, OP_JNC, OP_CALL}

\* one statement written from its parts: MNEMONIC [arg1[, arg2]], in upper
\* case with decimal numbers, or in lower case with hexadecimal numbers
InsText(s) ==
    LET M == IF s.hex THEN ToLower(MnemonicOf(s.op)) ELSE MnemonicOf(s.op)
        R1 == IF s.hex THEN ToLower(RegisterNames[s.r1 + 1]) ELSE RegisterNames[s.r1 + 1]
        R2 == IF s.hex THEN ToLower(RegisterNames[s.r2 + 1]) ELSE RegisterNames[s.r2 + 1]
        N == IF s.hex THEN HexText(s.n) ELSE DecText(s.n)
    IN  CASE s.op \in NoOperandOps -> M
          [] s.op \in RegRegOps -> M \o <<" ">> \o R1 \o <<",", " ">> \o R2
          [] s.op \in RegOps -> M \o <<" ">> \o R1
          [] s.op \in RegImmOps \cup ShiftOps -> M \o <<" ">> \o R1 \o <<",", " ">> \o N
          [] s.op = OP_LOAD_MEM -> M \o <<" ">> \o R1 \o <<",", " ", "[">> \o N \o <<"]">>
          [] s.op = OP_STORE -> M \o <<" ", "[">> \o N \o <<"]", ",", " ">> \o R1
          [] s.op = OP_OUT -> M \o <<" ">> \o N \o <<",", " ">> \o R1
          [] s.op \in JumpOps -> M \o <<" ">> \o N

\* a source is named by a record: a text above, one statement after a NOP,
\* or one of the two generated sources
TextSource(name) ==
    [kind |-> "text", name |-> name, op |-> 0, r1 |-> 0, r2 |-> 0, n |-> 0, hex |-> FALSE]
InsSource(op, r1, r2, n, hex) ==
    [kind |-> "ins", name |-> "", op |-> op, r1 |-> r1, r2 |-> r2, n |-> n, hex |-> hex]

\* operands of the generated statements
InsRegs == {REG_A, REG_D, REG_PC}
InsRegs2 == {REG_B, REG_SP}
InsWords == {0, 1, 255, 4660, 65535}
InsShifts == {0, 1, 255}

InsSources ==
    {InsSource(op, 0, 0, 0, hex) : op \in NoOperandOps, hex \in BOOLEAN}
    \cup {InsSource(op, r1, r2, 0, hex) :
            op \in RegRegOps, r1 \in InsRegs, r2 \in InsRegs2, hex \in BOOLEAN}
    \cup {InsSource(op, r1, 0, 0, hex) : op \in RegOps, r1 \in InsRegs, hex \in BOOLEAN}
    \cup {InsSource(op, r1, 0, n, hex) :
            op \in RegImmOps \cup {OP_LOAD_MEM, OP_STORE, OP_OUT},
            r1 \in InsRegs, n \in InsWords, hex \in BOOLEAN}
    \cup {InsSource(op, r1, 0, n, hex) :
            op \in ShiftOps, r1 \in InsRegs, n \in InsShifts, hex \in BOOLEAN}
    \cup {InsSource(op, 0, 0, n, hex) : op \in JumpOps, n \in InsWords, hex \in BOOLEAN}

\* NOP on every line until the buffer lacks one byte, with a label on the
\* first line at which 0x0100 + output_size no longer fits 16 bits; then a
\* statement of four bytes, one of two bytes, and a label on the full buffer
NopsSource ==
    [kind |-> "nops", name |-> "", op |-> 0, r1 |-> 0, r2 |-> 0, n |-> 0, hex |-> FALSE]
NopsLabelLine == MAX_PROGRAM_SIZE - 256 + 1
NopsLen == MAX_PROGRAM_SIZE + 2
NopsLine(i) ==
    IF i = NopsLabelLine THEN <<"T", "O", "P", ":", " ", "N", "O", "P">>
    ELSE IF i < MAX_PROGRAM_SIZE THEN <<"N", "O", "P">>
    ELSE IF i = MAX_PROGRAM_SIZE
    THEN <<"L", "O", "A", "D", " ", "A", ",", " ", "0", "x", "1", "2", "3", "4">>
    ELSE IF i = MAX_PROGRAM_SIZE + 1 THEN <<"I", "N", "C", " ", "B">>
    ELSE <<"L", "A", "T", "E", ":", " ", "H", "L", "T">>

\* one label more than the table holds: L1:, L2:, ...
LabelsSource ==
    [kind |-> "labels", name |-> "", op |-> 0, r1 |-> 0, r2 |-> 0, n |-> 0, hex |-> FALSE]
LabelsLen == MAX_LABELS + 2
LabelsLine(i) ==
    IF i <= MAX_LABELS + 1 THEN <<"L">> \o DecText(i) \o <<":">>
    ELSE <<"H", "L", "T">>

Sources ==
    {TextSource(name) : name \in TextNames} \cup InsSources
    \cup {NopsSource, LabelsSource}

\* the number of lines of a source, and its i-th line
SourceLen(src) ==
    CASE src.kind = "text" -> Len(TextOf(src.name))
      [] src.kind = "ins" -> 2
      [] src.kind = "nops" -> NopsLen
      [] src.kind = "labels" -> LabelsLen

SourceLine(src, i) ==
    CASE src.kind = "text" -> TextOf(src.name)[i]
      [] src.kind = "ins" -> IF i = 1 THEN <<"N", "O", "P">> ELSE InsText(src)
      [] src.kind = "nops" -> NopsLine(i)
      [] src.kind = "labels" -> LabelsLine(i)

-----------------------------------------------------------------------------
(* The host: main.c's commands and the public API of cpu.h *)

\* no instruction has been stepped yet
NoPrev ==
    [op |-> -1, pc |-> 0, args |-> <<0, 0, 0>>, regs |-> [r \in 0..5 |-> 0],
     flags |-> 0, ret |-> 0,
     pop |-> -1, ppc |-> 0, pargs |-> <<0, 0, 0>>, pregs |-> [r \in 0..5 |-> 0],
     pret |-> 0]

\* counters of the current run, and of the stack since the last cpu_init
NoRun == [base |-> 0, steps |-> 0, fatal |-> FALSE, depth |-> 0, spdirty |-> FALSE]

\* no source has been given to the assembler yet
NoAsm ==
    [src |-> TextSource(""), api |-> "file", at |-> "idle", pos |-> 0, ret |-> 0,
     diag |-> "", pre |-> asm_init, defs |-> <<>>, runs |-> 0, loaded |-> FALSE]

\* the CPU struct before cpu_init has run: its content does not matter
Blank ==
    [regs |-> [r \in 0..5 |-> 0], flags |-> 0, memory |-> <<>>, running |-> FALSE,
     halted |-> FALSE, cycles |-> 0, timer_value |-> 0, timer_enabled |-> FALSE,
     stdout |-> <<>>, nread |-> 0, inp |-> <<>>, ub |-> "mask"]

SetCPU(m) ==
    /\ regs' = m.regs
    /\ flags' = m.flags
    /\ memory' = m.memory
    /\ running' = m.running
    /\ halted' = m.halted
    /\ cycles' = m.cycles
    /\ timer_value' = m.timer_value
    /\ timer_enabled' = m.timer_enabled
    /\ stdout' = m.stdout
    /\ nread' = m.nread

\* CPU cpu; cpu_init(&cpu);
Init ==
    \E m \in {cpu_init(Blank)} :
       /\ regs = m.regs
       /\ flags = m.flags
       /\ memory = m.memory
       /\ running = m.running
       /\ halted = m.halted
       /\ cycles = m.cycles
       /\ timer_value = m.timer_value
       /\ timer_enabled = m.timer_enabled
       /\ stdout = <<>>
       /\ nread = 0
       /\ mode = "idle"
       /\ call = "cpu_init"
       /\ ret = 0
       /\ prev = NoPrev
       /\ runh = NoRun
       /\ asm = asm_init
       /\ asmh = NoAsm

\* the state cpu_init leaves, with nothing loaded
Fresh ==
    /\ memory = <<>>
    /\ cycles = 0
    /\ ~halted
    /\ ~running
    /\ regs = cpu_init(Blank).regs
    /\ flags = 0
    /\ ~timer_enabled
    /\ timer_value = 0

\* cpu_reset(&cpu): a new session, observed from an empty output
Reset ==
    /\ mode = "idle"
    /\ SetCPU([cpu_reset(Machine(<<>>, "mask")) EXCEPT !.stdout = <<>>, !.nread = 0])
    /\ mode' = "idle"
    /\ call' = "cpu_reset"
    /\ ret' = 0
    /\ prev' = NoPrev
    /\ runh' = NoRun
    /\ UNCHANGED <<asm, asmh>>

\* a run starts here: the step counters restart from the current cycles
RunStart(c) == [runh EXCEPT !.base = c, !.steps = 0, !.fatal = FALSE]

\* cpu_load_program(&cpu, program, size, start_addr)
LoadProgram(program, start_addr) ==
    /\ mode = "idle"
    /\ \E r \in {cpu_load_program(Machine(<<>>, "mask"), program, start_addr)} :
          /\ SetCPU(r.m)
          /\ ret' = r.v
    /\ mode' = "idle"
    /\ call' = "cpu_load_program"
    /\ prev' = NoPrev
    /\ runh' = RunStart(cycles)
    /\ UNCHANGED <<asm, asmh>>

\* the three bytes after the opcode, as they lie in memory
ArgBytes(pc) ==
    <<MemAt(memory, U16(pc + 1)), MemAt(memory, U16(pc + 2)),
      MemAt(memory, U16(pc + 3))>>

\* what a cpu_step call leaves in the history: the instruction it started
\* from, and the one before it
PrevAfter(r, opcode) ==
    IF halted THEN prev
    ELSE [op |-> opcode, pc |-> regs[REG_PC], args |-> ArgBytes(regs[REG_PC]),
          regs |-> regs, flags |-> flags, ret |-> r.v,
          pop |-> prev.op, ppc |-> prev.pc, pargs |-> prev.args,
          pregs |-> prev.regs, pret |-> prev.ret]

\* SP moves by one word down on PUSH and CALL, one word up on POP and RET
StackDelta(opcode) ==
    CASE opcode \in {OP_PUSH, OP_CALL} -> 1
      [] opcode \in {OP_POP, OP_RET} -> -1
      [] OTHER -> 0

\* the step stored into SP other than by the stack discipline
WritesSP(opcode, arg, sp) ==
    \/ opcode = OP_POP /\ arg = REG_SP
    \/ opcode \notin {OP_PUSH, OP_POP, OP_CALL, OP_RET} /\ sp # regs[REG_SP]

RunAfter(r, opcode) ==
    IF halted THEN runh
    ELSE [base |-> runh.base,
          steps |-> runh.steps + 1,
          fatal |-> runh.fatal \/ r.v < 0,
          depth |-> IF r.v = 1 THEN runh.depth + StackDelta(opcode) ELSE runh.depth,
          spdirty |-> \/ runh.spdirty
                      \/ r.v = 1 /\ WritesSP(opcode, MemAt(memory, U16(regs[REG_PC] + 1)),
                                             r.m.regs[REG_SP])]

\* cpu_step(&cpu) called by the host (cmd_trace's loop body)
Step(cap) ==
    /\ mode = "idle"
    /\ halted \/ cycles < cap
    /\ \E in \in StdinChoices, ub \in UBChoices :
         \E r \in {cpu_step(Machine(in, ub))}, f \in {Fetch(Machine(in, ub)).v} :
            /\ SetCPU(r.m)
            /\ ret' = r.v
            /\ prev' = PrevAfter(r, f)
            /\ runh' = RunAfter(r, f)
    /\ mode' = "idle"
    /\ call' = "cpu_step"
    /\ UNCHANGED <<asm, asmh>>

\* cpu_run: running = true, halted = false, then the loop
RunEnter ==
    /\ mode = "idle"
    /\ running' = TRUE
    /\ halted' = FALSE
    /\ mode' = "run"
    /\ call' = "cpu_run"
    /\ ret' = 0
    /\ runh' = RunStart(cycles)
    /\ UNCHANGED <<regs, flags, memory, cycles, timer_value, timer_enabled,
                   stdout, nread, prev, asm, asmh>>

\* one iteration of cpu_run's loop: the guard held, cpu_step, break on < 0
RunLoop(cap) ==
    /\ mode = "run"
    /\ running /\ ~halted
    /\ cycles < cap
    /\ \E in \in StdinChoices, ub \in UBChoices :
         \E r \in {cpu_step(Machine(in, ub))}, f \in {Fetch(Machine(in, ub)).v} :
            /\ SetCPU(r.m)
            /\ ret' = r.v
            /\ prev' = PrevAfter(r, f)
            /\ runh' = RunAfter(r, f)
            /\ mode' = IF r.v < 0 THEN "idle" ELSE "run"
    /\ call' = "cpu_run"
    /\ UNCHANGED <<asm, asmh>>

\* the loop guard fails: cpu_run returns
RunReturn ==
    /\ mode = "run"
    /\ ~(running /\ ~halted)
    /\ mode' = "idle"
    /\ UNCHANGED <<regs, flags, memory, running, halted, cycles, timer_value,
                   timer_enabled, stdout, nread, call, ret, prev, runh, asm, asmh>>

\* main.c: cpu_init, cpu_load_program at 0x0100, then cpu_run (cmd_run) or
\* cpu_step until halted (cmd_trace)
Next ==
    \/ Reset
    \/ (Fresh /\ call # "cpu_load_program" /\ \E p \in Programs : LoadProgram(p, BASE))
    \/ Step(MaxCycles)
    \/ (cycles = 0 /\ call = "cpu_load_program" /\ RunEnter)
    \/ RunLoop(MaxCycles)
    \/ RunReturn

Spec == Init /\ [][Next]_vars

\* cpu_run's loop guard, within the bound of the model
RunLoopGuard == mode = "run" /\ running /\ ~halted /\ cycles < MaxCycles

\* cpu_run is sequential code: while the loop guard holds it goes on to the
\* next cpu_step, and it returns once the guard fails.  The first is weak
\* fairness of RunLoop, written with the guard in the place of ENABLED
\* (cpu_step is total, so RunLoop is enabled exactly when its guard holds).
SpecRun ==
    /\ Init /\ [][Next]_vars
    /\ WF_vars(RunReturn)
    /\ ([]<>~RunLoopGuard) \/ ([]<><<RunLoop(MaxCycles)>>_vars)

-----------------------------------------------------------------------------
(* The public API of cpu.h called in any order *)

ApiPrograms ==
    { EncOp(OP_HLT),
      EncOp(OP_NOP) \o EncOp(OP_HLT),
      <<7>>,
      EncPacked(OP_DIV, REG_A, REG_B) }

\* load addresses: main.c's, and the last byte of memory
ApiStarts == {BASE, MEMORY_SIZE - 1}

\* flag arguments a caller may pass: a defined flag, and bit 0, which cpu.h
\* reserves
FlagArgs == {FLAG_ZERO, 1}

\* cpu_set_flag(&cpu, flag, value)
SetFlag(flag, value) ==
    /\ mode = "idle"
    /\ flags' = cpu_set_flag(Machine(<<>>, "mask"), flag, value).flags
    /\ call' = "cpu_set_flag"
    /\ UNCHANGED <<regs, memory, running, halted, cycles, timer_value, timer_enabled,
                   stdout, nread, mode, ret, prev, runh, asm, asmh>>

\* cpu_set_flags_arithmetic(&cpu, result, carry, overflow)
SetFlagsArithmetic(result, carry, overflow) ==
    /\ mode = "idle"
    /\ flags' = cpu_set_flags_arithmetic(Machine(<<>>, "mask"), result, carry,
                                         overflow).flags
    /\ call' = "cpu_set_flags_arithmetic"
    /\ UNCHANGED <<regs, memory, running, halted, cycles, timer_value, timer_enabled,
                   stdout, nread, mode, ret, prev, runh, asm, asmh>>

NextAPI ==
    \/ Reset
    \/ \E p \in ApiPrograms, start \in ApiStarts : LoadProgram(p, start)
    \/ \E flag \in FlagArgs, value \in BOOLEAN : SetFlag(flag, value)
    \/ \E result \in {0, 1} : SetFlagsArithmetic(result, FALSE, FALSE)
    \/ Step(MaxApiCycles)
    \/ RunEnter
    \/ RunLoop(MaxApiCycles)
    \/ RunReturn

SpecAPI == Init /\ [][NextAPI]_vars

-----------------------------------------------------------------------------
(* The assembler's host: main.c's cmd_assemble and cmd_asm_run, and the   *)
(* two entry points asm_assemble_file and asm_assemble_string             *)

\* asm_assemble_* calls on one context without an asm_init in between
MaxAsmRuns == 2

\* sources given to a context that has assembled before
AgainSources == {TextSource("unknown"), TextSource("io")}

\* sources passed as one buffer to asm_assemble_string
StringSources == {TextSource(name) : name \in TextNames}

\* what the loop body sees: fgets gives every line of the file, strtok
\* on "\n" gives the lines that are not empty
LinesOf(src, api) ==
    IF api = "string" THEN SelectSeq(TextOf(src.name), LAMBDA l : l # <<>>)
    ELSE TextOf(src.name)
LineCount(src, api) ==
    IF src.kind = "text" THEN Len(LinesOf(src, api)) ELSE SourceLen(src)
LineAt(src, api, i) ==
    IF src.kind = "text" THEN LinesOf(src, api)[i] ELSE SourceLine(src, i)

\* the image handed to cpu_load_program: output[0 .. output_size - 1]
OutputBytes(a) == [i \in 1..a.output_size |-> MemAt(a.output, i - 1)]

\* a new invocation of a command: Assembler asm_ctx; asm_init(&asm_ctx).
\* The process is new, its CPU struct as Init has it.
AsmInit ==
    /\ mode = "idle"
    /\ asmh.at = "idle"
    /\ asmh.runs > 0
    /\ asm' = asm_init
    /\ asmh' = NoAsm
    /\ SetCPU([cpu_init(Blank) EXCEPT !.stdout = <<>>, !.nread = 0])
    /\ mode' = "idle"
    /\ call' = "cpu_init"
    /\ ret' = 0
    /\ prev' = NoPrev
    /\ runh' = NoRun

\* asm_assemble_file / asm_assemble_string up to the loop: current_line = 0
AssembleStart(src, api) ==
    /\ mode = "idle"
    /\ asmh.at = "idle"
    /\ ~asmh.loaded
    /\ asmh.runs < MaxAsmRuns
    /\ asmh.runs > 0 => src \in AgainSources
    /\ api = "string" => src \in StringSources
    /\ asm' = [asm EXCEPT !.current_line = 0]
    /\ asmh' = [asmh EXCEPT !.src = src, !.api = api, !.at = "lines", !.pos = 0,
                            !.ret = 0, !.diag = "", !.pre = asm, !.runs = @ + 1]
    /\ UNCHANGED <<regs, flags, memory, running, halted, cycles, timer_value,
                   timer_enabled, stdout, nread, mode, call, ret, prev, runh>>

\* asm_assemble_file when fopen fails: -1, the context is not touched
AssembleNoFile ==
    /\ mode = "idle"
    /\ asmh.at = "idle"
    /\ ~asmh.loaded
    /\ asmh.runs < MaxAsmRuns
    /\ asmh' = [asmh EXCEPT !.src = TextSource(""), !.api = "file", !.pos = 0,
                            !.ret = -1, !.diag = "Cannot open file", !.pre = asm,
                            !.runs = @ + 1]
    /\ UNCHANGED <<regs, flags, memory, running, halted, cycles, timer_value,
                   timer_enabled, stdout, nread, mode, call, ret, prev, runh, asm>>

\* one iteration of the loop: current_line++, asm_parse_line, and on a
\* negative result has_errors = true and return -1
AssembleLine ==
    /\ asmh.at = "lines"
    /\ asmh.pos < LineCount(asmh.src, asmh.api)
    /\ \E r \in {asm_parse_line([asm EXCEPT !.current_line = @ + 1],
                                LineAt(asmh.src, asmh.api, asmh.pos + 1))} :
          /\ asm' = IF r.v < 0 THEN [r.a EXCEPT !.has_errors = TRUE] ELSE r.a
          /\ asmh' = [asmh EXCEPT
                        !.pos = @ + 1,
                        !.at = IF r.v < 0 THEN "idle" ELSE "lines",
                        !.ret = r.v,
                        !.diag = r.diag,
                        !.pre = asm,
                        !.defs = IF Len(r.a.labels) > Len(asm.labels)
                                 THEN Append(@, asm.output_size) ELSE @]
    /\ UNCHANGED <<regs, flags, memory, running, halted, cycles, timer_value,
                   timer_enabled, stdout, nread, mode, call, ret, prev, runh>>

\* no line is left: return 0
AssembleReturn ==
    /\ asmh.at = "lines"
    /\ asmh.pos = LineCount(asmh.src, asmh.api)
    /\ asmh' = [asmh EXCEPT !.at = "idle", !.ret = 0]
    /\ UNCHANGED <<regs, flags, memory, running, halted, cycles, timer_value,
                   timer_enabled, stdout, nread, mode, call, ret, prev, runh, asm>>

\* cmd_asm_run after a successful assembly: cpu_init, then
\* cpu_load_program(&cpu, asm_ctx.output, asm_ctx.output_size, 0x0100)
AsmLoad ==
    /\ mode = "idle"
    /\ asmh.at = "idle"
    /\ asmh.runs > 0
    /\ asmh.ret = 0
    /\ ~asmh.loaded
    /\ \E r \in {cpu_load_program(cpu_init(Blank), OutputBytes(asm), BASE)} :
          /\ SetCPU([r.m EXCEPT !.stdout = <<>>, !.nread = 0])
          /\ ret' = r.v
    /\ mode' = "idle"
    /\ call' = "cpu_load_program"
    /\ prev' = NoPrev
    /\ runh' = NoRun
    /\ asmh' = [asmh EXCEPT !.loaded = TRUE]
    /\ UNCHANGED asm

NextAsm ==
    \/ AsmInit
    \/ \E src \in Sources, api \in {"file", "string"} : AssembleStart(src, api)
    \/ AssembleNoFile
    \/ AssembleLine
    \/ AssembleReturn
    \/ AsmLoad
    \/ (asmh.loaded /\ call = "cpu_load_program" /\ ret = 0 /\ RunEnter)
    \/ RunLoop(MaxAsmCycles)
    \/ RunReturn

SpecAsm == Init /\ [][NextAsm]_vars

-----------------------------------------------------------------------------
(* Properties of the execution engine *)

\* the transition is a cpu_step call that found the CPU not halted
StepTaken == runh'.steps = runh.steps + 1

\* registers as an instruction's operand nibble or byte names them
RegValue(rs, i) == IF i \in 0..5 THEN rs[i] ELSE 0

\* the instruction at pc lies below the mapped ports
NoPortFetch(pc) == pc + 3 < PORT_STDOUT

\* C1: in a run without a fatal step, after the i-th cpu_step cycles equals
\* its value at the start of the run plus i; every executed instruction,
\* HLT included, adds exactly 1 and no step decreases cycles
C1_CyclesCount ==
    [][ /\ ~runh'.fatal => cycles' = runh'.base + runh'.steps
        /\ StepTaken => cycles' = IF ret' = 1 THEN cycles + 1 ELSE cycles ]_vars

\* a run of four instructions ending in HLT
C1_Witness ==
    /\ halted
    /\ prev.op = OP_HLT
    /\ ~runh.fatal
    /\ runh.steps = 4
    /\ cycles = runh.base + 4

\* C2: cpu_step on a halted CPU returns 0 and changes no register, flag,
\* memory byte, counter or timer, and does no I/O
C2_HaltedStepNoOp ==
    [][ (halted /\ call' = "cpu_step") =>
           /\ ret' = 0
           /\ UNCHANGED <<regs, flags, memory, running, halted, cycles,
                          timer_value, timer_enabled, stdout, nread>> ]_vars

\* cpu_step has returned 0 on a CPU that halted after executing instructions
C2_Witness ==
    /\ halted
    /\ call = "cpu_step"
    /\ ret = 0
    /\ cycles > 0

\* the opcodes cpu_step's switch has a case for
DefinedOpcodes ==
    { OP_NOP, OP_LOAD_IMM, OP_LOAD_MEM, OP_STORE, OP_MOV, OP_PUSH, OP_POP,
      OP_ADD, OP_ADDI, OP_SUB, OP_SUBI, OP_MUL, OP_DIV, OP_INC, OP_DEC,
      OP_AND, OP_OR, OP_XOR, OP_NOT, OP_SHL, OP_SHR, OP_CMP, OP_CMPI,
      OP_JMP, OP_JZ, OP_JNZ, OP_JC, OP_JNC, OP_CALL, OP_RET, OP_IN, OP_OUT,
      OP_HLT }

\* the instruction at PC is DIV with a zero divisor, or no instruction
FatalInstruction ==
    /\ NoPortFetch(regs[REG_PC])
    /\ \/ MemAt(memory, regs[REG_PC]) \notin DefinedOpcodes
       \/ /\ MemAt(memory, regs[REG_PC]) = OP_DIV
          /\ RegValue(regs, MemAt(memory, regs[REG_PC] + 1) % 16) = 0

\* C3: a step on DIV by zero or on an unknown opcode returns a negative
\* value, sets halted, and leaves PC on the instruction and the registers,
\* flags, memory and cycles as they were
C3_FatalStep ==
    [][ (StepTaken /\ FatalInstruction) =>
           /\ ret' < 0
           /\ halted'
           /\ regs' = regs
           /\ flags' = flags
           /\ memory' = memory
           /\ cycles' = cycles ]_vars

\* LOAD A,10; LOAD B,0; DIV A,B; HLT has stopped on the DIV
C3_Witness ==
    /\ ret < 0
    /\ halted
    /\ prev.op = OP_DIV
    /\ regs[REG_PC] = BASE + 8
    /\ MemAt(memory, regs[REG_PC]) = OP_DIV
    /\ regs[REG_A] = 10
    /\ regs[REG_B] = 0
    /\ cycles = 2

\* C4: cpu_run returns only after a step that executed HLT or returned a
\* fatal error, with halted true; inside one run no instruction is stepped
\* after the HLT or the fatal step; and while neither has happened the loop
\* guard (running && !halted) holds, so cpu_run steps again and cannot return
C4_RunReturns ==
    /\ [][ /\ (mode = "run" /\ mode' = "idle") =>
                 /\ halted'
                 /\ runh'.steps > 0
                 /\ (prev'.op = OP_HLT /\ prev'.ret = 1) \/ ret' < 0
           /\ (mode = "run" /\ StepTaken) =>
                 /\ ~runh.fatal
                 /\ ~(runh.steps > 0 /\ prev.op = OP_HLT)
           /\ (mode = "run" /\ ~halted) => running ]_vars
    /\ (mode = "run" /\ ~halted) ~> (halted \/ cycles >= MaxCycles)

\* cpu_run has returned from a run of at least three instructions ending in HLT
C4_Witness ==
    /\ mode = "idle"
    /\ call = "cpu_run"
    /\ halted
    /\ prev.op = OP_HLT
    /\ runh.steps >= 3

\* C5 as stated: once halted is true, no call of cpu_step, cpu_run or
\* cpu_load_program sets it back to false
C5_HaltedTerminal ==
    [][ (halted /\ call' \in {"cpu_step", "cpu_run", "cpu_load_program"}) =>
           halted' ]_vars

\* C5, amended: once halted is true, no call of cpu_step or cpu_load_program
\* sets it back to false or executes an instruction; cpu_run, like cpu_init
\* and cpu_reset, leaves Halted: it clears halted on entry and steps on from
\* the current PC
C5_HaltedSticky ==
    [][ /\ (halted /\ call' \in {"cpu_step", "cpu_load_program"}) =>
              /\ halted'
              /\ ~StepTaken
              /\ cycles' = cycles
              /\ stdout' = stdout
              /\ nread' = nread
        /\ (halted /\ mode = "idle" /\ call' = "cpu_run") =>
              /\ ~halted'
              /\ running'
              /\ mode' = "run"
              /\ regs' = regs
        /\ (mode = "run" /\ ~halted /\ runh.steps = 0 /\ cycles < MaxApiCycles
              /\ call' = "cpu_run") => StepTaken ]_vars

\* a program has been loaded into a CPU that had halted on its HLT
C5_Witness ==
    /\ halted
    /\ call = "cpu_load_program"
    /\ ret = 0
    /\ cycles > 0
    /\ regs[REG_PC] = BASE

\* the memory-mapped ports
Ports == PORT_STDOUT..PORT_TIMER_VALUE

\* the word below sp, where a push from sp stores, is ordinary RAM
RamSlot(sp) == {U16(sp - 2), U16(sp - 1)} \cap Ports = {}

\* the last two steps executed PUSH of a register, then POP of a register
PushThenPop ==
    /\ prev.op = OP_POP /\ prev.ret = 1
    /\ prev.pop = OP_PUSH /\ prev.pret = 1
    /\ NoPortFetch(prev.pc) /\ NoPortFetch(prev.ppc)
    /\ prev.pargs[1] \in 0..5
    /\ prev.args[1] \in 0..5

\* the value the PUSH found in its register
Pushed == prev.pregs[prev.pargs[1]]

\* C6 as stated: for every register r of A, B, C, D, SP, PC, PUSH of a
\* register holding v followed by POP r leaves r holding v and SP as it was
\* before the PUSH
C6_PushPopAnyRegister ==
    PushThenPop =>
        /\ regs[prev.args[1]] = Pushed
        /\ regs[REG_SP] = prev.pregs[REG_SP]

\* C6, amended: for r among A, B, C, D and a stack slot [SP-2, SP-1] in
\* ordinary RAM, PUSH of a register holding v followed by POP r leaves r
\* holding v and SP as it was before the PUSH; POP SP leaves SP holding v,
\* and POP PC leaves PC on the instruction after the POP
C6_PushPop ==
    (PushThenPop /\ RamSlot(prev.pregs[REG_SP])) =>
        /\ prev.args[1] \in REG_A..REG_D =>
              /\ regs[prev.args[1]] = Pushed
              /\ regs[REG_SP] = prev.pregs[REG_SP]
        /\ prev.args[1] = REG_SP => regs[REG_SP] = Pushed
        /\ prev.args[1] = REG_PC =>
              /\ regs[REG_PC] = prev.pc + 2
              /\ regs[REG_SP] = prev.pregs[REG_SP]

\* PUSH D with D = 0xFFFF, then POP B, on the stack cpu_init sets up
C6_Witness ==
    /\ PushThenPop
    /\ RamSlot(prev.pregs[REG_SP])
    /\ prev.pargs[1] = REG_D
    /\ prev.args[1] = REG_B
    /\ Pushed = 65535
    /\ regs[REG_B] = 65535
    /\ regs[REG_SP] = 65279

\* the 16-bit word stored at addr, low byte first
WordAt(addr) == MemAt(memory, addr) + 256 * MemAt(memory, U16(addr + 1))

\* the last step executed a CALL whose stack slot is ordinary RAM
CallDone ==
    /\ prev.op = OP_CALL /\ prev.ret = 1
    /\ NoPortFetch(prev.pc)
    /\ RamSlot(prev.regs[REG_SP])

\* the last two steps executed a CALL on such a slot, then a RET
CallThenRet ==
    /\ prev.op = OP_RET /\ prev.ret = 1
    /\ prev.pop = OP_CALL /\ prev.pret = 1
    /\ NoPortFetch(prev.ppc)
    /\ RamSlot(prev.pregs[REG_SP])

\* C7: a CALL at p on a RAM stack slot pushes p+3 and sets PC to its target;
\* a RET executed next at the target sets PC to p+3 and SP to its value
\* before the CALL; and while SP is written by PUSH, POP, CALL and RET only,
\* it stands one word below its initial value per push not yet popped, so
\* that it is back at its initial value after any balanced nesting
C7_CallRet ==
    /\ CallDone =>
          /\ regs[REG_PC] = prev.args[1] + 256 * prev.args[2]
          /\ regs[REG_SP] = U16(prev.regs[REG_SP] - 2)
          /\ WordAt(regs[REG_SP]) = prev.pc + 3
    /\ CallThenRet =>
          /\ prev.pc = prev.pargs[1] + 256 * prev.pargs[2]
          /\ regs[REG_PC] = prev.ppc + 3
          /\ regs[REG_SP] = prev.pregs[REG_SP]
    /\ ~runh.spdirty =>
          regs[REG_SP] = U16(cpu_init(Blank).regs[REG_SP] - 2 * runh.depth)

\* the inner CALL G of CALL F; HLT; F: PUSH A; CALL G; POP A; RET; G: RET has
\* returned: two words are still on the stack
C7_Witness ==
    /\ CallThenRet
    /\ regs[REG_PC] = prev.ppc + 3
    /\ prev.ppc = BASE + 6
    /\ runh.depth = 2
    /\ ~runh.spdirty

\* the flags byte with Z and N taken from a 16-bit result, C and O as given,
\* and the four unused low bits as they were
FlagsOf(result, carry, overflow, old) ==
    (IF result = 0 THEN FLAG_ZERO ELSE 0)
    + (IF carry THEN FLAG_CARRY ELSE 0)
    + (IF result >= 32768 THEN FLAG_NEGATIVE ELSE 0)
    + (IF overflow THEN FLAG_OVERFLOW ELSE 0)
    + (old % 16)

\* the last step executed an instruction with opcode op
Executed(op) == prev.op = op /\ prev.ret = 1 /\ NoPortFetch(prev.pc)

\* the two register nibbles of the last instruction, and what they held
PackedR1 == prev.args[1] \div 16
PackedR2 == prev.args[1] % 16
PackedA == RegValue(prev.regs, PackedR1)
PackedB == RegValue(prev.regs, PackedR2)

\* C8 as stated: after DIV r1,r2 with a non-zero divisor, for all pairs of
\* registers, r1 == r2 included, r1 holds the quotient and r2 the remainder
C8_DivAnyPair ==
    (Executed(OP_DIV) /\ PackedR1 \in 0..5 /\ PackedR2 \in 0..5 /\ PackedB # 0) =>
        /\ regs[PackedR1] = PackedA \div PackedB
        /\ regs[PackedR2] = PackedA % PackedB
        /\ flags = FlagsOf(PackedA \div PackedB, FALSE, FALSE, prev.flags)

\* C8, amended: after DIV r1,r2 with a non-zero divisor, Z and N reflect the
\* quotient and C = O = 0; for distinct r1, r2 among A, B, C, D, SP, r1 holds
\* the quotient and r2 the remainder; for r1 == r2 the register holds the
\* remainder 0; a PC operand ends as the address of the next instruction
C8_Div ==
    (Executed(OP_DIV) /\ PackedB # 0) =>
        /\ flags = FlagsOf(PackedA \div PackedB, FALSE, FALSE, prev.flags)
        /\ (PackedR1 \in 0..4 /\ PackedR1 # PackedR2) =>
              regs[PackedR1] = PackedA \div PackedB
        /\ PackedR2 \in 0..4 => regs[PackedR2] = PackedA % PackedB
        /\ (PackedR1 = PackedR2 /\ PackedR1 \in 0..4) => regs[PackedR1] = 0
        /\ regs[REG_PC] = prev.pc + 2

\* LOAD A,10; LOAD B,3; DIV A,B has left A = 3 and B = 1
C8_Witness ==
    /\ Executed(OP_DIV)
    /\ PackedR1 = REG_A /\ PackedR2 = REG_B
    /\ PackedA = 10 /\ PackedB = 3
    /\ regs[REG_A] = 3 /\ regs[REG_B] = 1
    /\ flags = 0

\* a 16-bit value read as a two's complement number
Signed(x) == IF x >= 32768 THEN x - 65536 ELSE x

\* the register byte and the immediate word of the last instruction
ImmReg == prev.args[1]
ImmA == RegValue(prev.regs, ImmReg)
ImmB == prev.args[2] + 256 * prev.args[3]

\* what an addition of a and b into register dest must have left
AddLaw(a, b, dest) ==
    /\ dest \in 0..4 => regs[dest] = (a + b) % 65536
    /\ flags = FlagsOf((a + b) % 65536, a + b > 65535,
                       Signed(a) + Signed(b) \notin -32768..32767, prev.flags)

\* C9: ADD and ADDI write (a + b) mod 2^16 and set C iff a + b > 0xFFFF, O
\* iff the signed sum is out of the 16-bit range, Z iff the written value
\* is 0, N iff its bit 15 is set; 0xFFFF + 1 gives 0 with Z and C, and
\* 0x7FFF + 1 gives 0x8000 with N and O and without C
C9_Add ==
    /\ Executed(OP_ADD) => AddLaw(PackedA, PackedB, PackedR1)
    /\ Executed(OP_ADDI) => AddLaw(ImmA, ImmB, ImmReg)
    /\ (Executed(OP_ADD) /\ PackedR1 = REG_A /\ PackedA = 65535 /\ PackedB = 1) =>
          (regs[REG_A] = 0 /\ flags = FLAG_ZERO + FLAG_CARRY)
    /\ (Executed(OP_ADDI) /\ ImmReg = REG_A /\ ImmA = 32767 /\ ImmB = 1) =>
          (regs[REG_A] = 32768 /\ flags = FLAG_NEGATIVE + FLAG_OVERFLOW)

\* ADD A,B with A = 0x7FFF and B = 1 has left A = 0x8000 with N and O
C9_Witness ==
    /\ Executed(OP_ADD)
    /\ PackedR1 = REG_A /\ PackedR2 = REG_B
    /\ PackedA = 32767 /\ PackedB = 1
    /\ regs[REG_A] = 32768
    /\ flags = FLAG_NEGATIVE + FLAG_OVERFLOW

\* the flags a subtraction or comparison of a and b must have left
SubFlags(a, b) ==
    FlagsOf((a - b) % 65536, a < b,
            Signed(a) - Signed(b) \notin -32768..32767, prev.flags)

\* no register other than PC has changed in the last step
RegistersKept == \A r \in 0..4 : regs[r] = prev.regs[r]

\* C10: SUB and SUBI write (a - b) mod 2^16 and set C iff a < b, O iff the
\* signed difference is out of the 16-bit range, Z iff the result is 0, N
\* iff its bit 15 is set; CMP and CMPI leave the same flags byte and change
\* no register other than PC
C10_SubCmp ==
    /\ Executed(OP_SUB) =>
          /\ PackedR1 \in 0..4 => regs[PackedR1] = (PackedA - PackedB) % 65536
          /\ flags = SubFlags(PackedA, PackedB)
    /\ Executed(OP_SUBI) =>
          /\ ImmReg \in 0..4 => regs[ImmReg] = (ImmA - ImmB) % 65536
          /\ flags = SubFlags(ImmA, ImmB)
    /\ Executed(OP_CMP) => (flags = SubFlags(PackedA, PackedB) /\ RegistersKept)
    /\ Executed(OP_CMPI) => (flags = SubFlags(ImmA, ImmB) /\ RegistersKept)

\* CMP A,B with A = 0x8000 and B = 1 has left O alone set and A as it was
C10_Witness ==
    /\ Executed(OP_CMP)
    /\ PackedR1 = REG_A /\ PackedR2 = REG_B
    /\ PackedA = 32768 /\ PackedB = 1
    /\ flags = FLAG_OVERFLOW
    /\ regs[REG_A] = 32768

\* the low 16 bits of a * b, by the low and high byte of a
MulLow(a, b) == ((a % 256) * b + (((a \div 256) * b) % 256) * 256) % 65536

\* a * b does not fit 16 bits
MulHigh(a, b) == a # 0 /\ b > 65535 \div a

\* C11: MUL writes the low 16 bits of a * b, sets C iff the high 16 bits of
\* the product are non-zero, clears O and sets Z and N from the low 16 bits;
\* 0x0100 * 0x0100 gives 0 with Z and C
C11_Mul ==
    /\ Executed(OP_MUL) =>
          /\ PackedR1 \in 0..4 => regs[PackedR1] = MulLow(PackedA, PackedB)
          /\ flags = FlagsOf(MulLow(PackedA, PackedB), MulHigh(PackedA, PackedB),
                             FALSE, prev.flags)
    /\ (Executed(OP_MUL) /\ PackedR1 = REG_A /\ PackedA = 256 /\ PackedB = 256) =>
          (regs[REG_A] = 0 /\ flags = FLAG_ZERO + FLAG_CARRY)

\* MUL A,B with A = B = 0x0100, entered with Z, C and O set, has left A = 0
\* with Z and C
C11_Witness ==
    /\ Executed(OP_MUL)
    /\ PackedR1 = REG_A /\ PackedR2 = REG_B
    /\ PackedA = 256 /\ PackedB = 256
    /\ prev.flags = FLAG_ZERO + FLAG_CARRY + FLAG_OVERFLOW
    /\ regs[REG_A] = 0
    /\ flags = FLAG_ZERO + FLAG_CARRY

\* bit k of a 16-bit value is set
BitSet(v, k) == (v \div 2^k) % 2 = 1

\* the register byte, the count byte and the register value of a shift
ShiftReg == prev.args[1]
ShiftBy == prev.args[2]
ShiftValue == RegValue(prev.regs, ShiftReg)

\* what a shift must have left: the result in the register, C as given, O
\* clear, Z and N from the result
ShiftLaw(result, carry) ==
    /\ ShiftReg \in 0..4 => regs[ShiftReg] = result
    /\ flags = FlagsOf(result, carry, FALSE, prev.flags)

\* C12: for a shift count s in 0..16, SHL writes (v << s) mod 2^16 with C the
\* bit 16-s of v, SHR writes v >> s with C the bit s-1 of v; with s = 0 the
\* register is kept and C is cleared; O is cleared and Z and N follow the
\* result
C12_Shift ==
    /\ (Executed(OP_SHL) /\ ShiftBy \in 0..16) =>
          ShiftLaw(IF ShiftBy = 16 THEN 0 ELSE (ShiftValue * 2^ShiftBy) % 65536,
                   ShiftBy > 0 /\ BitSet(ShiftValue, 16 - ShiftBy))
    /\ (Executed(OP_SHR) /\ ShiftBy \in 0..16) =>
          ShiftLaw(ShiftValue \div 2^ShiftBy,
                   ShiftBy > 0 /\ BitSet(ShiftValue, ShiftBy - 1))
    /\ (Executed(OP_SHL) \/ Executed(OP_SHR)) /\ ShiftBy = 0 /\ ShiftReg \in 0..4 =>
          /\ regs[ShiftReg] = ShiftValue
          /\ (flags \div FLAG_CARRY) % 2 = 0

\* SHL A,1 with A = 0xA5A5, entered with Z, C and O set, has left A = 0x4B4A
\* with C alone
C12_Witness ==
    /\ Executed(OP_SHL)
    /\ ShiftReg = REG_A /\ ShiftBy = 1
    /\ ShiftValue = 42405
    /\ prev.flags = FLAG_ZERO + FLAG_CARRY + FLAG_OVERFLOW
    /\ regs[REG_A] = 19274
    /\ flags = FLAG_CARRY

\* the last step executed one of the two-register bitwise instructions
ExecutedBitwise == Executed(OP_AND) \/ Executed(OP_OR) \/ Executed(OP_XOR)

\* C13: INC, DEC, AND, OR, XOR and NOT leave C = 0 and O = 0 and set Z and N
\* from the 16-bit result they write; INC of 0xFFFF gives 0 with Z and
\* without C, DEC of 0 gives 0xFFFF with N and without C
C13_LogicFlags ==
    /\ (Executed(OP_INC) /\ ImmReg \in 0..4) =>
          /\ regs[ImmReg] = (ImmA + 1) % 65536
          /\ flags = FlagsOf((ImmA + 1) % 65536, FALSE, FALSE, prev.flags)
    /\ (Executed(OP_DEC) /\ ImmReg \in 0..4) =>
          /\ regs[ImmReg] = (ImmA - 1) % 65536
          /\ flags = FlagsOf((ImmA - 1) % 65536, FALSE, FALSE, prev.flags)
    /\ (Executed(OP_NOT) /\ ImmReg \in 0..4) =>
          /\ regs[ImmReg] = 65535 - ImmA
          /\ flags = FlagsOf(65535 - ImmA, FALSE, FALSE, prev.flags)
    /\ (ExecutedBitwise /\ PackedR1 \in 0..4) =>
          flags = FlagsOf(regs[PackedR1], FALSE, FALSE, prev.flags)
    /\ (Executed(OP_INC) /\ ImmReg = REG_A /\ ImmA = 65535) =>
          (regs[REG_A] = 0 /\ flags = FLAG_ZERO)
    /\ (Executed(OP_DEC) /\ ImmReg = REG_A /\ ImmA = 0) =>
          (regs[REG_A] = 65535 /\ flags = FLAG_NEGATIVE)

\* INC A with A = 0xFFFF, entered with Z, C and O set, has left A = 0 with Z
\* alone
C13_Witness ==
    /\ Executed(OP_INC)
    /\ ImmReg = REG_A /\ ImmA = 65535
    /\ prev.flags = FLAG_ZERO + FLAG_CARRY + FLAG_OVERFLOW
    /\ regs[REG_A] = 0
    /\ flags = FLAG_ZERO

\* the opcode byte at PC and the i-th byte after it, as they lie in memory
OpAt == MemAt(memory, regs[REG_PC])
ArgAt(i) == MemAt(memory, U16(regs[REG_PC] + i))

\* the transition is a cpu_step call on the instruction op, whose opcode and
\* n operand bytes are fetched from ordinary RAM
Stepping(op, n) ==
    /\ StepTaken
    /\ OpAt = op
    /\ \A i \in 0..n : U16(regs[REG_PC] + i) \notin Ports

\* the jump's condition on the current flags
JumpTaken(op) ==
    CASE op = OP_JMP -> TRUE
      [] op = OP_JZ -> (flags \div FLAG_ZERO) % 2 = 1
      [] op = OP_JNZ -> (flags \div FLAG_ZERO) % 2 = 0
      [] op = OP_JC -> (flags \div FLAG_CARRY) % 2 = 1
      [] op = OP_JNC -> (flags \div FLAG_CARRY) % 2 = 0

\* C14: a jump at p with operand addr sets PC = addr (JMP always, JZ, JNZ,
\* JC, JNC when the named flag condition holds) and PC = p + 3 mod 2^16
\* otherwise; no other register, no flag and no memory byte changes
C14_Jumps ==
    [][ \A op \in {OP_JMP, OP_JZ, OP_JNZ, OP_JC, OP_JNC} :
          Stepping(op, 2) =>
             /\ ret' = 1
             /\ regs' = [regs EXCEPT ![REG_PC] =
                            IF JumpTaken(op) THEN ArgAt(1) + 256 * ArgAt(2)
                            ELSE (regs[REG_PC] + 3) % 65536]
             /\ flags' = flags
             /\ memory' = memory ]_vars

\* a JZ in the last three bytes of memory was not taken: PC has wrapped to 0
C14_Witness ==
    /\ prev.op = OP_JZ
    /\ prev.ret = 1
    /\ prev.pc = MEMORY_SIZE - 3
    /\ (prev.flags \div FLAG_ZERO) % 2 = 0
    /\ regs[REG_PC] = 0

\* instructions that write a register named by an index byte, and by the
\* high nibble of a packed byte
ByteDestOps ==
    {OP_LOAD_IMM, OP_LOAD_MEM, OP_POP, OP_ADDI, OP_SUBI, OP_INC, OP_DEC, OP_NOT,
     OP_SHL, OP_SHR, OP_IN}
PackedDestOps == {OP_MOV, OP_ADD, OP_SUB, OP_MUL, OP_DIV, OP_AND, OP_OR, OP_XOR}

\* the destination index of the instruction at PC
DestAt == IF OpAt \in PackedDestOps THEN ArgAt(1) \div 16 ELSE ArgAt(1)

\* the accessors on an index that names no register
BadIndexIgnored ==
    \A r \in {6, 7, 15, 16, 255} :
       /\ cpu_get_reg(Machine(<<>>, "mask"), r) = 0
       /\ \A x \in {0, 1, 65535} :
             cpu_set_reg(Machine(<<>>, "mask"), r, x) = Machine(<<>>, "mask")

\* the transition is a cpu_step on an instruction whose destination index
\* is above 5
BadDestStep(op) == Stepping(op, 3) /\ DestAt > 5

\* C15 as stated: get_reg(r) = 0 and set_reg(r, x) is a no-op for r > 5, and
\* an instruction whose destination index is > 5 leaves A, B, C, D and SP
\* unchanged
C15_BadDestination ==
    /\ []BadIndexIgnored
    /\ [][ \A op \in ByteDestOps \cup PackedDestOps :
             BadDestStep(op) => \A i \in 0..4 : regs'[i] = regs[i] ]_vars

\* what DIV with a destination above 5 stores: the dividend reads as 0, so a
\* non-zero divisor register receives the remainder 0
DivRemainderTo(i) ==
    /\ ArgAt(1) % 16 = i
    /\ regs[i] # 0

\* C15: get_reg(r) = 0 and set_reg(r, x) is a no-op for every r > 5; an
\* instruction whose destination index is > 5 writes no memory and leaves
\* A, B, C, D and SP unchanged, except that POP still advances SP by 2 and
\* DIV still stores the remainder 0 in its valid second operand
C15_BadRegister ==
    /\ []BadIndexIgnored
    /\ [][ \A op \in ByteDestOps \cup PackedDestOps :
             BadDestStep(op) =>
                /\ memory' = memory
                /\ \A i \in 0..4 :
                      regs'[i] =
                         IF op = OP_POP /\ i = REG_SP THEN U16(regs[REG_SP] + 2)
                         ELSE IF op = OP_DIV /\ DivRemainderTo(i) THEN 0
                         ELSE regs[i] ]_vars

\* POP with destination index 6 ran: A and B are in place, SP moved up
C15_Witness ==
    /\ prev.op = OP_POP
    /\ prev.args[1] = 6
    /\ prev.ret = 1
    /\ regs[REG_A] = 3
    /\ regs[REG_B] = 5
    /\ regs[REG_SP] = U16(prev.regs[REG_SP] + 2)

\* C16: the reserved flag bits 0-3 are never written by the public API, so
\* they are 0 in every state reachable from reset
C16_ReservedBitsZero == flags % 16 = 0

\* C17: cpu_load_program(bytes, len, start) succeeds exactly when
\* start + len <= 0x10000; a success returns 0 with the bytes in memory at
\* start and PC = start; a failure returns -1 and leaves memory, PC and all
\* other CPU state unchanged
C17_LoadBounds ==
    [][ \A p \in ApiPrograms, start \in ApiStarts :
          (call' = "cpu_load_program" /\ LoadProgram(p, start)) =>
             /\ ret' = 0 <=> start + Len(p) <= MEMORY_SIZE
             /\ ret' # 0 => ret' = -1
             /\ ret' = 0 =>
                   /\ regs'[REG_PC] = start
                   /\ \A i \in 1..Len(p) : MemAt(memory', start + i - 1) = p[i]
             /\ ret' = -1 =>
                   UNCHANGED <<regs, flags, memory, running, halted, cycles,
                               timer_value, timer_enabled, stdout, nread>> ]_vars

\* HLT was loaded into the last byte of memory, and a later load that would
\* run past the end was refused
C17_Witness ==
    /\ call = "cpu_load_program"
    /\ ret = -1
    /\ regs[REG_PC] = MEMORY_SIZE - 1
    /\ MemAt(memory, MEMORY_SIZE - 1) = OP_HLT

\* the byte writes of a 16-bit store: low byte at addr, high byte at addr + 1
WordWrites(addr, v) == << <<addr, v % 256>>, <<U16(addr + 1), v \div 256>> >>

\* the byte writes <<address, byte>> of the instruction at PC, in order
WritesAt ==
    CASE OpAt = OP_OUT ->
           << <<ArgAt(1) + 256 * ArgAt(2), RegValue(regs, ArgAt(3)) % 256>> >>
      [] OpAt = OP_STORE ->
           WordWrites(ArgAt(1) + 256 * ArgAt(2), RegValue(regs, ArgAt(3)))
      [] OpAt = OP_PUSH ->
           WordWrites(U16(regs[REG_SP] - 2), RegValue(regs, ArgAt(1)))
      [] OpAt = OP_CALL ->
           WordWrites(U16(regs[REG_SP] - 2), U16(regs[REG_PC] + 3))
      [] OTHER -> <<>>

\* the bytes among them that go to port 0xFF00
RECURSIVE StdoutBytes(_)
StdoutBytes(ws) ==
    IF ws = <<>> THEN <<>>
    ELSE (IF Head(ws)[1] = PORT_STDOUT THEN <<Head(ws)[2]>> ELSE <<>>)
           \o StdoutBytes(Tail(ws))

\* C18: the host output grows, instruction by instruction, by exactly the
\* bytes v & 0xFF written to port 0xFF00 (OUT 0xFF00,r: the low byte of r);
\* an instruction that writes no byte there, and any call that executes no
\* instruction, adds nothing
C18_HostOutput ==
    [][ /\ (StepTaken /\ \A i \in 0..3 : U16(regs[REG_PC] + i) \notin Ports) =>
              stdout' = stdout \o StdoutBytes(WritesAt)
        /\ (~StepTaken /\ call' # "cpu_reset") => stdout' = stdout ]_vars

\* OUT, a STORE at the port, a STORE and a PUSH across it have each sent
\* their byte: 0x48, 0x48, 0x41, 0x41
C18_Witness ==
    /\ stdout = <<72, 72, 65, 65>>
    /\ halted

\* the transition is a cpu_step call that fetched an opcode from ordinary RAM
FetchedStep == StepTaken /\ \A i \in 0..3 : U16(regs[REG_PC] + i) \notin Ports

\* the instruction at PC writes a byte to port a / a non-zero byte to port a
WritesPort(a) == \E k \in DOMAIN WritesAt : WritesAt[k][1] = a
WritesNonZero(a) == \E k \in DOMAIN WritesAt : WritesAt[k][1] = a /\ WritesAt[k][2] # 0

\* cpu_step called on a CPU that is already halted
HaltedStepCall == call' = "cpu_step" /\ halted

\* C19 as stated: while enabled and with no write to a timer port,
\* timer_value goes up by 1 on an executed step and is unchanged by an
\* already-halted or fatal one; while disabled it changes only by a write to
\* 0xFF03
C19_TicksOnExecuted ==
    [][ /\ (FetchedStep /\ timer_enabled
              /\ ~WritesPort(PORT_TIMER_CTRL) /\ ~WritesPort(PORT_TIMER_VALUE)) =>
                 timer_value' = IF ret' = 1 THEN U16(timer_value + 1) ELSE timer_value
        /\ HaltedStepCall => timer_value' = timer_value
        /\ (FetchedStep /\ ~timer_enabled /\ ~WritesPort(PORT_TIMER_VALUE)) =>
                 timer_value' = timer_value ]_vars

\* C19: while enabled and with no write to a timer port, timer_value goes
\* up by 1 (mod 2^16) on every cpu_step that fetches an opcode, executed or
\* fatal, and is unchanged by a cpu_step on a halted CPU; while disabled a
\* cpu_step changes it only by a write to 0xFF03 or by a non-zero write to
\* 0xFF02, which zeroes it
C19_TimerTicks ==
    [][ /\ (FetchedStep /\ timer_enabled
              /\ ~WritesPort(PORT_TIMER_CTRL) /\ ~WritesPort(PORT_TIMER_VALUE)) =>
                 timer_value' = U16(timer_value + 1)
        /\ HaltedStepCall => timer_value' = timer_value
        /\ (FetchedStep /\ ~timer_enabled /\ ~WritesPort(PORT_TIMER_VALUE)) =>
                 timer_value' = IF WritesNonZero(PORT_TIMER_CTRL) THEN 0
                                ELSE timer_value ]_vars

\* the timer was enabled, counted a NOP, and counted the fatal step too
C19_Witness ==
    /\ prev.ret = -1
    /\ prev.pop = OP_NOP
    /\ timer_enabled
    /\ timer_value = 2

\* timer_value as the instruction at PC finds it: after this step's tick
Ticked == IF timer_enabled THEN U16(timer_value + 1) ELSE timer_value

\* the byte accessors on the two timer ports, applied to the current CPU
TimerPortLaw ==
    LET cpu == Machine(<<>>, "mask")
    IN  /\ cpu_read_byte(cpu, PORT_TIMER_CTRL).v = (IF timer_enabled THEN 1 ELSE 0)
        /\ cpu_read_byte(cpu, PORT_TIMER_VALUE).v = timer_value % 256
        /\ \A v \in {0, 1, 128, 255} :
              /\ cpu_write_byte(cpu, PORT_TIMER_CTRL, v).timer_enabled = (v # 0)
              /\ cpu_write_byte(cpu, PORT_TIMER_CTRL, v).timer_value =
                    (IF v # 0 THEN 0 ELSE timer_value)
              /\ cpu_write_byte(cpu, PORT_TIMER_VALUE, v).timer_value = v
              /\ cpu_write_byte(cpu, PORT_TIMER_VALUE, v).timer_enabled = timer_enabled

\* OUT port,r and IN r,port at PC with the given port
OutTo(port) == FetchedStep /\ OpAt = OP_OUT /\ ArgAt(1) + 256 * ArgAt(2) = port
InFrom(port) ==
    FetchedStep /\ OpAt = OP_IN /\ ArgAt(2) + 256 * ArgAt(3) = port /\ ArgAt(1) \in 0..4

\* C20: a non-zero byte written to 0xFF02 enables the timer and zeroes
\* timer_value; a 0 written there disables it and leaves timer_value as it
\* is; reading 0xFF02 gives 1 if enabled, else 0; writing v to 0xFF03 sets
\* timer_value to v; reading 0xFF03 gives timer_value mod 256.  In a step
\* the instruction meets timer_value after that step's tick.
C20_TimerPorts ==
    /\ []TimerPortLaw
    /\ [][ /\ OutTo(PORT_TIMER_CTRL) =>
                IF RegValue(regs, ArgAt(3)) % 256 # 0
                THEN timer_enabled' /\ timer_value' = 0
                ELSE ~timer_enabled' /\ timer_value' = Ticked
           /\ OutTo(PORT_TIMER_VALUE) =>
                /\ timer_value' = RegValue(regs, ArgAt(3)) % 256
                /\ timer_enabled' = timer_enabled
           /\ InFrom(PORT_TIMER_CTRL) =>
                regs'[ArgAt(1)] = (IF timer_enabled THEN 1 ELSE 0)
           /\ InFrom(PORT_TIMER_VALUE) =>
                regs'[ArgAt(1)] = Ticked % 256 ]_vars

\* IN B,0xFF03 ran with timer_value at 255: the step's tick made it 256 and
\* B received the low byte, 0
C20_Witness ==
    /\ prev.op = OP_IN
    /\ prev.args = <<REG_B, 3, 255>>
    /\ prev.ret = 1
    /\ timer_enabled
    /\ timer_value = 256
    /\ regs[REG_B] = 0

\* the current CPU with the byte b placed in memory[] at addr
WithRamByte(in, addr, b) ==
    [Machine(in, "mask") EXCEPT !.memory = MemPut(@, addr, b)]

\* the byte accessors at the port address a: a write leaves memory[] as it
\* is, and what a read returns does not depend on memory[a]
PortBypassesRam(a) ==
    /\ \A v \in {1, 255} :
          cpu_write_byte(Machine(<<>>, "mask"), a, v).memory = memory
    /\ \A in \in StdinChoices :
          cpu_read_byte(WithRamByte(in, a, 1), a).v
             = cpu_read_byte(WithRamByte(in, a, 2), a).v

\* C21: at each of the four port addresses every byte write leaves memory[]
\* at that address as it is and no byte read returns memory[] at that
\* address, for the accessors and for the instructions that use them
C21_PortsBypassRAM ==
    [][ FetchedStep =>
          \A a \in Ports :
             /\ PortBypassesRam(a)
             /\ WritesPort(a) => MemAt(memory', a) = MemAt(memory, a) ]_vars

\* the word accessors on the current CPU: two byte accesses, low byte at
\* addr first, high byte at addr + 1 mod 2^16 second
WordAccessLaw ==
    LET cpu == Machine(<<>>, "mask")
    IN  /\ \A a \in {BASE, PORT_TIMER_CTRL, MEMORY_SIZE - 1}, v \in {769, 1280, 255, 0} :
              cpu_write_word(cpu, a, v)
                 = cpu_write_byte(cpu_write_byte(cpu, a, v % 256),
                                  (a + 1) % 65536, v \div 256)
        /\ \A a \in {BASE, PORT_TIMER_CTRL, MEMORY_SIZE - 1} :
              cpu_read_word(cpu, a).v
                 = cpu_read_byte(cpu, a).v + 256 * cpu_read_byte(cpu, (a + 1) % 65536).v
        /\ cpu_read_word(cpu, PORT_TIMER_CTRL).v
              = (timer_value % 256) * 256 + (IF timer_enabled THEN 1 ELSE 0)
        /\ \A v \in {769, 1280, 255, 0} :
              /\ cpu_write_word(cpu, PORT_TIMER_CTRL, v).timer_enabled = (v % 256 # 0)
              /\ cpu_write_word(cpu, PORT_TIMER_CTRL, v).timer_value = v \div 256

\* STORE [addr],r and LOAD r,[addr] at PC with the given address
StoreAt(addr) == Stepping(OP_STORE, 3) /\ ArgAt(1) + 256 * ArgAt(2) = addr
LoadFrom(addr) ==
    Stepping(OP_LOAD_MEM, 3) /\ ArgAt(2) + 256 * ArgAt(3) = addr /\ ArgAt(1) \in 0..4

\* C22: a word access is two byte accesses, low byte at addr first, high
\* byte at addr + 1 mod 2^16 second, each dispatched on its own address:
\* STORE [0xFF02],r applies the timer-control write with the low byte of r,
\* then sets timer_value to the high byte; LOAD r,[0xFF02] yields
\* (timer_value mod 256) * 256 + (1 if enabled else 0), on the value the
\* step's tick left; a word at 0xFFFF has its second byte at 0x0000
C22_WordAccess ==
    /\ []WordAccessLaw
    /\ [][ /\ StoreAt(PORT_TIMER_CTRL) =>
                /\ timer_enabled' = (RegValue(regs, ArgAt(3)) % 256 # 0)
                /\ timer_value' = RegValue(regs, ArgAt(3)) \div 256
           /\ LoadFrom(PORT_TIMER_CTRL) =>
                regs'[ArgAt(1)] = (Ticked % 256) * 256 + (IF timer_enabled THEN 1 ELSE 0)
           /\ StoreAt(MEMORY_SIZE - 1) =>
                /\ MemAt(memory', MEMORY_SIZE - 1) = RegValue(regs, ArgAt(3)) % 256
                /\ MemAt(memory', 0) = RegValue(regs, ArgAt(3)) \div 256
           /\ LoadFrom(MEMORY_SIZE - 1) =>
                regs'[ArgAt(1)] = MemAt(memory, MEMORY_SIZE - 1) + 256 * MemAt(memory, 0)
         ]_vars

\* STORE [0xFF02] of 0x0301 enabled the timer and then set it to 3; the
\* LOAD that followed ticked it to 4 and read 0x0401
C22_Witness ==
    /\ prev.op = OP_LOAD_MEM
    /\ prev.pop = OP_STORE
    /\ prev.ret = 1
    /\ timer_enabled
    /\ timer_value = 4
    /\ regs[REG_B] = 1025

\* C23 as stated: while SP has been changed only through PUSH, POP, CALL
\* and RET since reset, SP is an even address
C23_SPEven == ~runh.spdirty => regs[REG_SP] % 2 = 0

\* C23: while SP has been changed only through PUSH, POP, CALL and RET
\* since reset (no POP with SP as its destination), SP is an odd address:
\* 0xFEFF plus or minus a multiple of 2
C23_SPOdd == ~runh.spdirty => regs[REG_SP] % 2 = 1

\* two words are on the stack and SP has moved from 0xFEFF to 0xFEFB
C23_Witness ==
    /\ ~runh.spdirty
    /\ runh.depth = 2
    /\ regs[REG_SP] = 65275

\* the reset state, field by field
IsResetState(m) ==
    /\ m.regs = [r \in 0..5 |-> CASE r = REG_SP -> 65279 [] r = REG_PC -> 256
                                  [] OTHER -> 0]
    /\ m.flags = 0
    /\ m.cycles = 0
    /\ \A a \in DOMAIN m.memory : m.memory[a] = 0
    /\ ~m.timer_enabled
    /\ m.timer_value = 0
    /\ ~m.running
    /\ ~m.halted

\* C24: cpu_init, and cpu_reset applied to any reachable state, yield exactly
\* the reset state: A=B=C=D=0, SP=0xFEFF, PC=0x0100, flags=0, cycles=0, all
\* memory bytes 0, timer off and 0, running and halted false
C24_ResetState ==
    /\ IsResetState(cpu_init(Machine(<<>>, "mask")))
    /\ IsResetState(cpu_reset(Machine(<<>>, "mask")))
    /\ call \in {"cpu_init", "cpu_reset"} => IsResetState(Machine(<<>>, "mask"))

\* cpu_reset meets a CPU that has run: memory loaded, cycles counted, the
\* timer on and counting, halted
C24_Witness ==
    /\ memory # <<>>
    /\ cycles > 2
    /\ halted
    /\ timer_enabled
    /\ timer_value > 0
    /\ regs[REG_A] # 0
    /\ IsResetState(cpu_reset(Machine(<<>>, "mask")))

-----------------------------------------------------------------------------
(* Properties of the assembler *)

\* the transition is one iteration of the assembly loop
LineTaken == asmh.at = "lines" /\ asmh'.pos = asmh.pos + 1

\* the line that iteration reads
NextText == LineAt(asmh.src, asmh.api, asmh.pos + 1)

\* the statement of a line: what stands after the label, without the comment
Statement(text) ==
    LET line == trim(StripComment(trim(text)))
    IN  IF strchr(line, ":") > 0 THEN trim(From(line, strchr(line, ":") + 1)) ELSE line

\* the operand text of a one-operand statement, as the source has it
WrittenOperand(text) ==
    IF strchr(Statement(text), " ") > 0
    THEN trim(From(Statement(text), strchr(Statement(text), " ") + 1))
    ELSE <<>>

\* the statement is a JMP, JZ, JNZ, JC, JNC or CALL
IsJump(text) == JumpOp(SplitLine(Statement(text)).instr) >= 0

\* the line got as far as its statement: its label, if any, was accepted
LabelAccepted == asmh'.diag \notin {"Duplicate label", "Too many labels"}

\* the table entries a name written in the source refers to, names being
\* case-insensitive and stored in upper case
EntriesNamed(table, w) == {i \in 1..Len(table) : table[i].name = ToUpper(w)}

\* the bytes the line appended to the output
Emitted ==
    [i \in 1..(asm'.output_size - asm.output_size) |->
        MemAt(asm'.output, asm.output_size + i - 1)]

\* C25: a jump or CALL whose operand is a label that no line up to and
\* including its own has defined fails at that line with the undefined-label
\* error; one whose operand names a defined label emits the opcode and the
\* label's recorded address, low byte first.
C25_LabelOperands ==
    [][ (LineTaken /\ IsJump(NextText) /\ LabelAccepted) =>
          LET w == WrittenOperand(NextText)
              op == JumpOp(SplitLine(Statement(NextText)).instr)
          IN  /\ (asm_parse_number(w).v < 0 /\ EntriesNamed(asm'.labels, w) = {}) =>
                    /\ asmh'.ret = -1
                    /\ asmh'.diag = "Undefined label"
                    /\ asm'.has_errors
              /\ EntriesNamed(asm'.labels, w) # {} =>
                    \E i \in EntriesNamed(asm'.labels, w) :
                       /\ asmh'.ret = 0
                       /\ Emitted = <<op, Lo(asm'.labels[i].address),
                                      Hi(asm'.labels[i].address)>>
      ]_vars

\* the line, without its comment, holds a ':' and so defines a label
DefinesLabel(text) == strchr(trim(StripComment(trim(text))), ":") > 0

\* the name it defines, upper-cased
DefinedName(text) ==
    ToUpper(trim(Upto(trim(StripComment(trim(text))),
                      strchr(trim(StripComment(trim(text))), ":") - 1)))

\* no two entries of the table have the same name, whatever the case
UniqueNames(table) ==
    \A i, j \in 1..Len(table) :
       i # j => ToUpper(table[i].name) # ToUpper(table[j].name)

\* the loop was left with -1, has_errors is set, the table is as it was
FailsKeepingTable ==
    /\ asmh'.ret = -1
    /\ asmh'.at = "idle"
    /\ asm'.has_errors
    /\ asm'.labels = asm.labels

\* C26: the label table never holds two entries with the same case-folded
\* name, and a line that defines a label whose upper-cased name is already
\* stored fails there: has_errors set, the loop left, the table unchanged.
C26_UniqueLabels ==
    /\ [](UniqueNames(asm.labels))
    /\ [][ (LineTaken /\ DefinesLabel(NextText)
            /\ \E i \in 1..Len(asm.labels) : asm.labels[i].name = DefinedName(NextText))
           => FailsKeepingTable ]_vars

\* the line defined a label and went on to encode a statement after it
LabelledStatement ==
    /\ LineTaken
    /\ DefinesLabel(NextText)
    /\ Len(asm'.labels) = Len(asm.labels) + 1
    /\ asmh'.ret = 0
    /\ asm'.output_size > asm.output_size

\* the statement's first byte lies in the image where the label, taken as
\* an address in an image loaded at 0x0100, points
FirstByteLabelled(address) ==
    /\ asm'.labels[Len(asm'.labels)].address = address
    /\ MnemonicOf(MemAt(asm'.output, asm.output_size)) =
          SplitLine(Statement(NextText)).instr

\* a step of the loaded image takes a jump or a call
JumpStep ==
    /\ asmh.loaded
    /\ \E op \in JumpOps : Stepping(op, 2) /\ (op = OP_CALL \/ JumpTaken(op))

\* control arrives at the byte that followed the definition of every label
\* whose address the jump names
ArrivesAtLabel ==
    \A i \in 1..Len(asm.labels) :
       asm.labels[i].address = ArgAt(1) + 256 * ArgAt(2) =>
          /\ regs'[REG_PC] = BASE + asmh.defs[i]
          /\ asmh.defs[i] < asm.output_size =>
                MemAt(memory', regs'[REG_PC]) = MemAt(asm.output, asmh.defs[i])

\* C27 as stated: every label in the table has the address 0x0100 + the
\* number of bytes emitted before its definition; a label in front of a
\* statement has the address of the statement's first byte; in the image
\* loaded at 0x0100 a jump to the label arrives at that statement.
C27_LabelAddress ==
    /\ [](\A i \in 1..Len(asm.labels) : asm.labels[i].address = 256 + asmh.defs[i])
    /\ [][LabelledStatement => FirstByteLabelled(256 + asm.output_size)]_vars
    /\ [][JumpStep => ArrivesAtLabel]_vars

\* C27, amended: the address is (0x0100 + the number of bytes emitted before
\* the definition) modulo 2^16; the rest as stated, the label of a statement
\* being the address of its first byte modulo 2^16.
C27_LabelAddressMod ==
    /\ [](\A i \in 1..Len(asm.labels) :
            asm.labels[i].address = (256 + asmh.defs[i]) % 65536)
    /\ [][LabelledStatement => FirstByteLabelled((256 + asm.output_size) % 65536)]_vars
    /\ [][JumpStep => ArrivesAtLabel]_vars

\* CALL sub has run in the loaded image and PC is at the statement of sub
C27_Witness ==
    /\ asmh.src = TextSource("call")
    /\ asmh.loaded
    /\ prev.op = OP_CALL
    /\ Len(asm.labels) = 2
    /\ asm.labels[1].name = <<"S", "U", "B">>
    /\ regs[REG_PC] = asm.labels[1].address
    /\ MemAt(memory, regs[REG_PC]) = OP_INC

\* the messages with which a line fails: unknown instruction, invalid
\* register, invalid number, missing ']', undefined label, duplicate label,
\* label table full, bad STORE shape
LineFailures ==
    {"Unknown instruction", "Invalid register", "Invalid registers",
     "Invalid immediate value", "Invalid address", "Invalid arguments",
     "Invalid shift arguments", "Invalid port number", "Invalid IN arguments",
     "Missing ']'", "Undefined label", "Duplicate label", "Too many labels",
     "STORE requires [addr] format"}

\* the line the loop has just processed failed
LineFailed == LineTaken /\ asmh'.diag \in LineFailures

\* C28: a line fails exactly with one of the listed errors; the assembler
\* then returns -1 with has_errors set and the loop left, so that no later
\* line is processed; the failing line adds no byte, output is what the
\* preceding lines left; has_errors, once true, stays true until asm_init.
C28_FirstFailure ==
    /\ [][ LineTaken => ((asmh'.ret = -1) <=> (asmh'.diag \in LineFailures)) ]_vars
    /\ [][ LineFailed =>
             /\ asmh'.ret = -1
             /\ asmh'.at = "idle"
             /\ asm'.has_errors
             /\ asm'.current_line = asm.current_line + 1
             /\ asm'.output_size = asm.output_size
             /\ asm'.output = asm.output ]_vars
    /\ [][ asmh.ret = -1 => ~LineTaken ]_vars
    /\ [][ asm.has_errors => (asm'.has_errors \/ (asm' = asm_init /\ asmh' = NoAsm)) ]_vars

\* the second line of the source badreg has failed on its register, after
\* its label was stored: the output holds the four bytes of the first line
C28_Witness ==
    /\ asmh.src = TextSource("badreg")
    /\ asmh.runs = 1
    /\ asmh.diag = "Invalid registers"
    /\ asmh.ret = -1
    /\ asmh.pos = 2
    /\ asm.has_errors
    /\ asm.output_size = 4
    /\ Len(asm.labels) = 1

\* the bytes below position n are the same in two output buffers
SameBelow(o1, o2, n) ==
    \A i \in (DOMAIN o1) \cup (DOMAIN o2) : i < n => MemAt(o1, i) = MemAt(o2, i)

\* emit_byte on the context a: one byte more while there is room, nothing
\* at all on a full buffer
EmitByteLaw(a, b) ==
    IF a.output_size < MAX_PROGRAM_SIZE
    THEN /\ emit_byte(a, b).output_size = a.output_size + 1
         /\ MemAt(emit_byte(a, b).output, a.output_size) = b
         /\ SameBelow(emit_byte(a, b).output, a.output, a.output_size)
         /\ emit_byte(a, b).labels = a.labels
         /\ emit_byte(a, b).current_line = a.current_line
         /\ emit_byte(a, b).has_errors = a.has_errors
    ELSE emit_byte(a, b) = a

\* emit_word on the context a: the low byte at output_size, the high byte
\* after it, each only if it finds room
EmitWordLaw(a, w) ==
    /\ emit_word(a, w).output_size =
          IF a.output_size + 2 <= MAX_PROGRAM_SIZE THEN a.output_size + 2
          ELSE MAX_PROGRAM_SIZE
    /\ a.output_size < MAX_PROGRAM_SIZE =>
          MemAt(emit_word(a, w).output, a.output_size) = w % 256
    /\ a.output_size + 1 < MAX_PROGRAM_SIZE =>
          MemAt(emit_word(a, w).output, a.output_size + 1) = w \div 256
    /\ SameBelow(emit_word(a, w).output, a.output, a.output_size)
    /\ emit_word(a, w).has_errors = a.has_errors

\* C29: output_size never exceeds 0x10000; emit_byte appends exactly one
\* byte while output_size < 0x10000 and otherwise changes nothing and raises
\* no error; emit_word appends the low byte, then the high byte; no line
\* modifies a byte that was emitted before it.
C29_OutputBuffer ==
    /\ [](asm.output_size <= MAX_PROGRAM_SIZE)
    /\ [](\A b \in {0, 65, 255} : EmitByteLaw(asm, b))
    /\ [](\A w \in {255, 4660} : EmitWordLaw(asm, w))
    /\ [][ LineTaken =>
             /\ asm'.output_size >= asm.output_size
             /\ SameBelow(asm'.output, asm.output, asm.output_size) ]_vars

\* the buffer took the first byte of LOAD A, 0x1234 as its last one, and
\* the line INC B after it went by without a byte and without an error
C29_Witness ==
    /\ asmh.src = NopsSource
    /\ asmh.pos = MAX_PROGRAM_SIZE + 1
    /\ asmh.ret = 0
    /\ ~asm.has_errors
    /\ asm.output_size = MAX_PROGRAM_SIZE
    /\ asmh.pre.output_size = MAX_PROGRAM_SIZE
    /\ MemAt(asm.output, MAX_PROGRAM_SIZE - 1) = OP_LOAD_IMM

\* a CPU with the given bytes at 0x0100 and nothing else
Probe(bytes) == [cpu_init(Blank) EXCEPT !.memory = MemCopy(<<>>, BASE, bytes, 1)]

\* the operands as cpu_step's case of the opcode reads them, from pc on
OperandsOf(m, opcode, pc) ==
    CASE opcode \in RegRegOps -> FetchPacked(m, pc)
      [] opcode \in RegOps -> FetchReg(m, pc)
      [] opcode \in RegImmOps \cup {OP_LOAD_MEM} -> FetchRegWord(m, pc)
      [] opcode \in {OP_STORE, OP_OUT} -> FetchWordReg(m, pc)
      [] opcode \in ShiftOps -> FetchRegShift(m, pc)
      [] opcode \in JumpOps -> FetchWord(m, pc)
      [] OTHER -> [m |-> m, pc |-> pc]

\* the bytes decode to the statement s: its operation, its registers, its
\* number, and as many bytes read as there are
DecodesTo(bytes, s) ==
    LET opcode == Fetch(Probe(bytes)).v
        d == OperandsOf(Probe(bytes), opcode, BASE + 1)
    IN  /\ bytes # <<>>
        /\ opcode = s.op
        /\ d.pc = BASE + Len(bytes)
        /\ s.op \in RegRegOps => d.r1 = s.r1 /\ d.r2 = s.r2
        /\ s.op \in RegOps => d.reg = s.r1
        /\ s.op \in RegImmOps \cup {OP_LOAD_MEM} => d.reg = s.r1 /\ d.imm = s.n
        /\ s.op \in {OP_STORE, OP_OUT} => d.addr = s.n /\ d.reg = s.r1
        /\ s.op \in ShiftOps => d.reg = s.r1 /\ d.shift = s.n
        /\ s.op \in JumpOps => d.addr = s.n

\* the loop processes the statement of a generated source (its second line)
StatementLine == LineTaken /\ asmh.src.kind = "ins" /\ asmh.pos = 1

\* the loaded image of a generated source steps its statement, which lies
\* behind the NOP of the first line
StatementStep ==
    /\ asmh.loaded
    /\ asmh.src.kind = "ins"
    /\ asmh.runs = 1
    /\ StepTaken
    /\ regs[REG_PC] = BASE + 1

\* the operations that set PC themselves
ControlTransfers == JumpOps \cup {OP_RET}

\* PC moved on by the bytes the statement's line emitted
AdvancesByEmitted ==
    regs'[REG_PC] = regs[REG_PC] + (asm.output_size - asmh.pre.output_size)

\* C30 as stated: every statement the assembler accepts decodes, by the
\* operand layout cpu_step uses, to the same operation, registers and
\* 16-bit operand, and a step of a statement that is no control transfer
\* advances PC by the number of bytes emitted.
C30_EncodingAgrees ==
    /\ [][ StatementLine => asmh'.ret = 0 /\ DecodesTo(Emitted, asmh.src) ]_vars
    /\ [][ (StatementStep /\ asmh.src.op \notin ControlTransfers)
           => AdvancesByEmitted ]_vars

\* C30, amended: the same, for the steps that do not fail (a DIV by zero
\* returns -1 and leaves PC where it was).
C30_EncodingAgreesOnSuccess ==
    /\ [][ StatementLine => asmh'.ret = 0 /\ DecodesTo(Emitted, asmh.src) ]_vars
    /\ [][ (StatementStep /\ asmh.src.op \notin ControlTransfers /\ ret' = 1)
           => AdvancesByEmitted ]_vars

\* addi d, 0x1234 was assembled behind a NOP, loaded and stepped
C30_Witness ==
    /\ asmh.src = InsSource(OP_ADDI, REG_D, 0, 4660, TRUE)
    /\ asmh.loaded
    /\ asm.output_size = 5
    /\ prev.op = OP_ADDI
    /\ prev.pc = BASE + 1
    /\ regs[REG_PC] = BASE + 5
    /\ regs[REG_D] = 4660

-----------------------------------------------------------------------------
(* Properties of whole programs: assembled, loaded at 0x0100 and run *)

\* the first assembly of a new context, of the named source, has returned
Assembled(name) ==
    /\ asmh.src = TextSource(name)
    /\ asmh.api = "file"
    /\ asmh.runs = 1
    /\ asmh.at = "idle"

\* its image was loaded and cpu_run has returned
RanToEnd(name) ==
    /\ Assembled(name)
    /\ asmh.loaded
    /\ call = "cpu_run"
    /\ mode = "idle"

\* C31: programs/factorial.asm assembles without error to 119 bytes, and
\* the run of that image writes "3! = 6\n" to STDOUT and halts with
\* SP = 0xFEFF.
C31_Factorial ==
    /\ Assembled("factorial") => asmh.ret = 0 /\ asm.output_size = 119
    /\ RanToEnd("factorial") =>
          /\ stdout = <<51, 33, 32, 61, 32, 54, 10>>
          /\ halted
          /\ regs[REG_SP] = 65279

\* the source assembles, and its run ends halted with A = 0x1234 and
\* SP = 0xFEFF after the given number of cycles
StackRoundTrip(n) ==
    /\ Assembled("stack") => asmh.ret = 0
    /\ RanToEnd("stack") =>
          /\ halted
          /\ regs[REG_A] = 4660
          /\ cycles = n
          /\ regs[REG_SP] = 65279

\* C32 as stated: LOAD A,0x1234 / PUSH A / LOAD A,0 / POP A / HLT, assembled
\* and run from reset at 0x0100, ends halted with A = 0x1234, cycles = 4
\* and SP = 0xFEFF.
C32_StackRoundTrip4 == StackRoundTrip(4)

\* C32, amended: the same with cycles = 5, the HLT being counted as the
\* four instructions before it are.
C32_StackRoundTrip5 == StackRoundTrip(5)

\* the run of the source has ended, the pushed word still below the stack top
C32_Witness ==
    /\ RanToEnd("stack")
    /\ halted
    /\ MemAt(memory, 65277) = 52
    /\ MemAt(memory, 65278) = 18
    /\ regs[REG_PC] = BASE + 13

\* C33: LOAD A,0 / LOAD B,5 / L: ADDI A,48 / OUT 0xFF00,A / SUBI A,48 /
\* ADDI A,1 / CMP A,B / JNZ L / HLT assembles with L at 0x0108, and its run
\* from reset at 0x0100 ends at the HLT having written "01234" to STDOUT,
\* the six instructions of the loop executed five times each.
C33_Loop ==
    /\ Assembled("loop") =>
          /\ asmh.ret = 0
          /\ asm.output_size = 30
          /\ asm.labels = << [name |-> <<"L">>, address |-> 264] >>
    /\ (Assembled("loop") /\ asmh.loaded /\ mode = "run" /\ ~halted) => cycles < 2 + 5 * 6 + 1
    /\ RanToEnd("loop") =>
          /\ halted
          /\ ret = 1
          /\ prev.op = OP_HLT
          /\ prev.pc = BASE + 29
          /\ stdout = <<48, 49, 50, 51, 52>>
          /\ cycles = 2 + 5 * 6 + 1

\* the run of the loop has ended with A = B = 5
C33_Witness ==
    /\ RanToEnd("loop")
    /\ halted
    /\ regs[REG_A] = 5
    /\ regs[REG_B] = 5
    /\ Len(stdout) = 5

-----------------------------------------------------------------------------
(* Properties of the two entry points *)

\* the positions of the source's text lines that are not empty
RECURSIVE FilledFrom(_, _)
FilledFrom(text, i) ==
    IF i > Len(text) THEN <<>>
    ELSE IF text[i] = <<>> THEN FilledFrom(text, i + 1)
    ELSE <<i>> \o FilledFrom(text, i + 1)

\* the position in the source text of the k-th line the loop processes
TextIndex(src, api, k) ==
    IF api = "string" THEN FilledFrom(TextOf(src.name), 1)[k] ELSE k

\* asm_assemble_file on a context a, from line i of the text on: the
\* value returned and the context left
RECURSIVE FileFrom(_, _, _), FileAfter(_, _, _)
FileAfter(r, text, i) ==
    IF r.v < 0 THEN [v |-> -1, a |-> [r.a EXCEPT !.has_errors = TRUE]]
    ELSE FileFrom(r.a, text, i + 1)
FileFrom(a, text, i) ==
    IF i > Len(text) THEN [v |-> 0, a |-> a]
    ELSE FileAfter(asm_parse_line([a EXCEPT !.current_line = @ + 1], text[i]), text, i)

\* asm_assemble_string has returned, called on a new context
StringReturned ==
    /\ asmh.api = "string"
    /\ asmh.src.kind = "text"
    /\ asmh.runs = 1
    /\ asmh.at = "idle"

\* the context agrees with what asm_assemble_file leaves for the same text
SameAsFile ==
    /\ asmh.ret = FileFrom(asm_init, TextOf(asmh.src.name), 1).v
    /\ asm.current_line = FileFrom(asm_init, TextOf(asmh.src.name), 1).a.current_line
    /\ asm.output_size = FileFrom(asm_init, TextOf(asmh.src.name), 1).a.output_size
    /\ asm.output = FileFrom(asm_init, TextOf(asmh.src.name), 1).a.output
    /\ asm.labels = FileFrom(asm_init, TextOf(asmh.src.name), 1).a.labels

\* C34: while a line is processed current_line is the 1-based position of
\* that line in the source text, blank and comment lines counted (so on a
\* failure it names the offending line), and asm_assemble_string leaves the
\* same current_line, output bytes and label table as asm_assemble_file
\* for the same text.
C34_LineNumbers ==
    /\ [][ (LineTaken /\ asmh.src.kind = "text")
           => asm'.current_line = TextIndex(asmh.src, asmh.api, asmh.pos + 1) ]_vars
    /\ [](StringReturned => SameAsFile)

-----------------------------------------------------------------------------
(* Properties of numeric operands *)

HexDigits == DecDigits \o <<"a", "b", "c", "d", "e", "f", "A", "B", "C", "D", "E", "F">>

\* every character of s from position i on is one of digits, and there is one
AllIn(s, i, digits) ==
    /\ i <= Len(s)
    /\ \A k \in i..Len(s) : IndexOf(s[k], digits) > 0

\* a decimal numeral, or 0x / 0X and a hexadecimal numeral
IsHexNumeral(s) == Len(s) >= 2 /\ s[1] = "0" /\ s[2] \in {"x", "X"} /\ AllIn(s, 3, HexDigits)
IsNumeral(s) == AllIn(s, 1, DecDigits) \/ IsHexNumeral(s)

\* its value modulo 2^16
NumeralValue(s) ==
    IF IsHexNumeral(s) THEN StrtolDigits(s, 3, 16, 0).num ELSE StrtolDigits(s, 1, 10, 0).num

\* the statement of the line takes a number: LOAD, ADDI, SUBI, CMPI, SHL,
\* SHR, IN and OUT, and LOAD and STORE with a bracketed address
NumberOperands(text) ==
    LET s == SplitLine(Statement(text))
    IN  IF s.instr = <<"L", "O", "A", "D">>
        THEN IF ~StartsWith(s.arg2, "[") THEN {s.arg2}
             ELSE IF strchr(s.arg2, "]") > 0 THEN {Bracketed(s.arg2)} ELSE {}
        ELSE IF s.instr = <<"S", "T", "O", "R", "E">>
        THEN IF StartsWith(s.arg1, "[") /\ strchr(s.arg1, "]") > 0
             THEN {Bracketed(s.arg1)} ELSE {}
        ELSE IF RegImmOp(s.instr) >= 0 \/ ShiftOp(s.instr) >= 0 \/ s.instr = <<"I", "N">>
        THEN {s.arg2}
        ELSE IF s.instr = <<"O", "U", "T">> THEN {s.arg1}
        ELSE {}

\* the loop processes a line of a text whose statement takes a number
NumberLine ==
    /\ LineTaken
    /\ asmh.src.kind = "text"
    /\ LabelAccepted
    /\ NumberOperands(NextText) # {}

\* C35: asm_parse_number succeeds exactly on the decimal numerals and the
\* 0x/0X-prefixed hex numerals, with the value modulo 2^16, and fails on
\* every other operand; an instruction whose number is missing or malformed
\* fails and emits nothing.
C35_Numbers ==
    [][ NumberLine =>
          \A n \in NumberOperands(NextText) :
             /\ asm_parse_number(n).v = (IF IsNumeral(n) THEN 0 ELSE -1)
             /\ IsNumeral(n) => asm_parse_number(n).value = NumeralValue(n)
             /\ ~IsNumeral(n) =>
                   /\ asmh'.ret < 0
                   /\ asm'.output_size = asm.output_size
                   /\ asm'.output = asm.output ]_vars

-----------------------------------------------------------------------------
(* Frame properties *)

\* C36: a successful cpu_load_program sets memory[start .. start+len-1] to
\* the program bytes and PC to start, and changes nothing else: A-D, SP,
\* flags, cycles, running, halted, the timer and every other memory byte
\* stay, so a halted CPU stays halted and one that is not stays so.
C36_LoadFrame ==
    [][ \A p \in ApiPrograms, start \in ApiStarts :
          (call' = "cpu_load_program" /\ LoadProgram(p, start) /\ ret' = 0) =>
             /\ regs'[REG_PC] = start
             /\ \A r \in REG_A..REG_SP : regs'[r] = regs[r]
             /\ \A a \in DOMAIN memory \cup DOMAIN memory' :
                   MemAt(memory', a) = IF a \in start..(start + Len(p) - 1)
                                       THEN p[a - start + 1] ELSE MemAt(memory, a)
             /\ UNCHANGED <<flags, cycles, running, halted, timer_value,
                            timer_enabled, stdout, nread>> ]_vars

\* NOP HLT was loaded at 0x0100 into a CPU that had run into an unknown
\* opcode, with an earlier program still in the last byte of memory
C36_Witness ==
    /\ call = "cpu_load_program"
    /\ ret = 0
    /\ halted
    /\ running
    /\ flags # 0
    /\ regs[REG_PC] = BASE
    /\ MemAt(memory, BASE) = OP_NOP
    /\ MemAt(memory, BASE + 1) = OP_HLT
    /\ MemAt(memory, MEMORY_SIZE - 1) = 7

\* C37: running is true only while cpu_run is stepping: once cpu_run has
\* returned, after HLT or after a fatal step, running is false, and between
\* API calls running and halted are never both true.
C37_RunningOnlyInRun ==
    /\ running => mode = "run"
    /\ (mode = "idle" /\ call = "cpu_run") => ~running
    /\ mode = "idle" => ~(running /\ halted)

-----------------------------------------------------------------------------
(* Order of the timer tick and the instruction's port access *)

\* the program TimerCount lies at 0x0100 and the given number of its
\* instructions have been stepped since it was loaded
TimerCountAfter(n) ==
    /\ \A i \in 1..Len(TimerCount) : MemAt(memory, BASE + i - 1) = TimerCount[i]
    /\ runh.steps = n
    /\ cycles = n

\* the program TimerFetch lies at 0x0100 and the given number of
\* instructions have been stepped since it was loaded
TimerFetchAfter(n) ==
    /\ \A i \in 1..Len(TimerFetch) : MemAt(memory, BASE + i - 1) = TimerFetch[i]
    /\ runh.steps = n
    /\ cycles = n

\* C38: in a step with the timer enabled the tick comes after the opcode
\* fetch and before the instruction's port access: IN r,0xFF03 gives
\* (timer_value before the step + 1) mod 256, OUT 0xFF03,r leaves the
\* written byte in timer_value, the OUT 0xFF02 that enables the timer
\* leaves timer_value = 0, and n instructions later timer_value = n.
C38_TimerOrder ==
    /\ [][ /\ (timer_enabled /\ InFrom(PORT_TIMER_VALUE)) =>
                /\ regs'[ArgAt(1)] = ((timer_value + 1) % 65536) % 256
                /\ timer_value' = (timer_value + 1) % 65536
           /\ (timer_enabled /\ OutTo(PORT_TIMER_VALUE)) =>
                timer_value' = RegValue(regs, ArgAt(3)) % 256
           /\ (OutTo(PORT_TIMER_CTRL) /\ RegValue(regs, ArgAt(3)) % 256 # 0) =>
                timer_enabled' /\ timer_value' = 0
           /\ (timer_enabled /\ FetchedStep
                 /\ ~WritesPort(PORT_TIMER_CTRL) /\ ~WritesPort(PORT_TIMER_VALUE)) =>
                timer_enabled' /\ timer_value' = (timer_value + 1) % 65536 ]_vars
    /\ [](\A n \in 0..5 : TimerCountAfter(2 + n) => timer_enabled /\ timer_value = n)
    /\ [](TimerFetchAfter(5) =>
             /\ halted
             /\ prev.pc = PORT_TIMER_VALUE
             /\ timer_value = 256)

\* four instructions after the OUT that enabled the timer, IN B,0xFF03 has
\* read 4
C38_Witness ==
    /\ TimerCountAfter(6)
    /\ prev.op = OP_IN
    /\ prev.pop = OP_NOP
    /\ timer_enabled
    /\ timer_value = 4
    /\ regs[REG_B] = 4

\* the instructions outside the arithmetic, logic and compare group
MovingOps ==
    {OP_NOP, OP_LOAD_IMM, OP_LOAD_MEM, OP_STORE, OP_MOV, OP_PUSH, OP_POP, OP_JMP,
     OP_JZ, OP_JNZ, OP_JC, OP_JNC, OP_CALL, OP_RET, OP_IN, OP_OUT, OP_HLT}

\* the flag a conditional jump tests, and the value that makes it jump
JumpFlag(op) == IF op \in {OP_JZ, OP_JNZ} THEN FLAG_ZERO ELSE FLAG_CARRY
JumpsOnSet(op) == op \in {OP_JZ, OP_JC}

\* C39: NOP, LOAD, STORE, MOV, PUSH, POP, the jumps, CALL, RET, IN, OUT and
\* HLT leave the flags byte as it is, whatever their operands, so that a
\* conditional jump decides on the flags the last arithmetic, logic or
\* compare instruction left.
C39_FlagsFrame ==
    [][ /\ (StepTaken /\ prev'.op \in MovingOps) => flags' = flags
        /\ \A op \in {OP_JZ, OP_JNZ, OP_JC, OP_JNC} :
              (Stepping(op, 2) /\ prev.op \in MovingOps /\ prev.ret = 1) =>
                  regs'[REG_PC] =
                     IF (BitAnd(prev.flags, JumpFlag(op)) # 0) = JumpsOnSet(op)
                     THEN ArgAt(1) + 256 * ArgAt(2)
                     ELSE U16(regs[REG_PC] + 3) ]_vars

\* POP PC ran with C and N set and left them set
C39_Witness ==
    /\ prev.op = OP_POP
    /\ prev.args[1] = REG_PC
    /\ prev.ret = 1
    /\ prev.pop = OP_CMPI
    /\ prev.flags = FLAG_CARRY + FLAG_NEGATIVE
    /\ flags = FLAG_CARRY + FLAG_NEGATIVE

-----------------------------------------------------------------------------
(* The program counter across a step *)

\* the number of bytes the case of an opcode reads, the opcode included
InstructionLength(op) ==
    CASE op \in RegRegOps \cup RegOps -> 2
      [] op \in ShiftOps \cup JumpOps -> 3
      [] op \in RegImmOps \cup {OP_LOAD_MEM, OP_STORE, OP_OUT} -> 4
      [] OTHER -> 1

\* the step is a JMP, a CALL, a RET or a conditional jump that is taken
TransfersControl ==
    \/ prev'.op \in {OP_JMP, OP_CALL, OP_RET}
    \/ prev'.op \in {OP_JZ, OP_JNZ, OP_JC, OP_JNC} /\ JumpTaken(prev'.op)

\* the two register nibbles of the instruction at PC
NibbleR1 == ArgAt(1) \div 16
NibbleR2 == ArgAt(1) % 16

\* the step writes the word w at addr, outside the ports
WordWritten(addr, w) ==
    (addr \notin Ports /\ U16(addr + 1) \notin Ports) =>
        /\ MemAt(memory', addr) = w % 256
        /\ MemAt(memory', U16(addr + 1)) = w \div 256

\* C40: every executed instruction that is no JMP, taken conditional jump,
\* CALL or RET leaves PC = (PC before + instruction length) mod 2^16, also
\* when it names PC as its destination; an instruction that reads PC as a
\* source operand (MOV, ADD, SUB, PUSH, STORE, OUT, CMPI) reads the address
\* of its own opcode byte
C40_ProgramCounter ==
    [][ /\ (StepTaken /\ ret' = 1 /\ ~TransfersControl) =>
              regs'[REG_PC] = U16(regs[REG_PC] + InstructionLength(prev'.op))
        /\ (Stepping(OP_MOV, 1) /\ NibbleR2 = REG_PC /\ NibbleR1 \in 0..4) =>
              regs'[NibbleR1] = regs[REG_PC]
        /\ (Stepping(OP_ADD, 1) /\ NibbleR2 = REG_PC /\ NibbleR1 \in 0..4) =>
              regs'[NibbleR1] = U16(regs[NibbleR1] + regs[REG_PC])
        /\ (Stepping(OP_SUB, 1) /\ NibbleR2 = REG_PC /\ NibbleR1 \in 0..4) =>
              regs'[NibbleR1] = U16(regs[NibbleR1] - regs[REG_PC])
        /\ (Stepping(OP_PUSH, 1) /\ ArgAt(1) = REG_PC) =>
              WordWritten(U16(regs[REG_SP] - 2), regs[REG_PC])
        /\ (Stepping(OP_STORE, 3) /\ ArgAt(3) = REG_PC) =>
              WordWritten(ArgAt(1) + 256 * ArgAt(2), regs[REG_PC])
        /\ (Stepping(OP_OUT, 3) /\ ArgAt(3) = REG_PC
              /\ ArgAt(1) + 256 * ArgAt(2) = PORT_STDOUT) =>
              stdout' = Append(stdout, regs[REG_PC] % 256)
        /\ (Stepping(OP_CMPI, 3) /\ ArgAt(1) = REG_PC) =>
              (BitAnd(flags', FLAG_ZERO) # 0) = (regs[REG_PC] = ArgAt(2) + 256 * ArgAt(3)) ]_vars

\* NOP ; MOV B,PC ; HLT has left the address of the MOV in B, and PC behind
\* the two bytes of the MOV
C40_Witness ==
    /\ prev.op = OP_MOV /\ prev.args[1] = 16 * REG_B + REG_PC /\ prev.ret = 1
    /\ prev.pc = BASE + 1
    /\ regs[REG_B] = BASE + 1
    /\ regs[REG_PC] = BASE + 3

=============================================================================
